---- MODULE Spec2Model ----
(***************************************************************************)
(* A model of the order pipeline's concurrent step orchestrator            *)
(* (internal/order), of the courier pool (internal/service/pool), of the   *)
(* in-flight tracker and of the built-in payment, vendor and courier       *)
(* steps.  Goroutines are processes; an action is one atomic step of one   *)
(* goroutine, or one event of the environment (a timer firing, the         *)
(* caller's context ending).  Wall-clock durations are abstracted to       *)
(* three classes: "zero" (d <= 0), "short" (the timer may fire at any      *)
(* moment) and "far" (the timer does not fire within the run observed).    *)
(* StepResult.DurationMS is not modelled.                                  *)
(***************************************************************************)
EXTENDS Integers, Sequences, FiniteSets, TLC

\* Longest registered step list explored for the generic orchestrator.
MaxSteps == 3

\* Names given to generic steps, by registration position.
StepNames == <<"a", "b", "c", "d", "e", "f">>

----------------------------------------------------------------------------
(* Error values.  A Go error is modelled by its Unwrap chain, outermost    *)
(* layer first; nil is the empty chain.  A layer is "wrap" (fmt.Errorf     *)
(* with %w: no Kind method), "boom" (errors.New), one of the two context   *)
(* sentinels, or a kinded error named by the string its Kind() returns.    *)

Nil == <<>>
ErrCanceled == <<"Canceled">>
ErrDeadlineExceeded == <<"DeadlineExceeded">>
ErrBoom == <<"boom">>

KindLayers == {"payment_declined", "vendor_unavailable", "no_courier"}

ErrDeclined == <<"wrap", "payment_declined">>
ErrUnavailable == <<"wrap", "vendor_unavailable">>
ErrNoCourierAvailable == <<"wrap", "no_courier">>

\* errors.Is(err, target) for a sentinel target: some layer of the chain is it.
ErrorsIs(err, target) == \E k \in 1..Len(err) : err[k] = target

\* errors.As(err, &k) with k a kinder: position of the first layer that has
\* a Kind method, 0 when none has.
KinderLast(err) ==
    LET ks == {k \in 1..Len(err) : err[k] \in KindLayers}
    IN  IF ks = {} THEN 0 ELSE CHOOSE k \in ks : \A j \in ks : j <= k

ErrorsAsKinder(err) ==
    LET ks == {k \in 1..Len(err) : err[k] \in KindLayers}
    IN  IF ks = {} THEN 0 ELSE CHOOSE k \in ks : \A j \in ks : k <= j

\* The cancellation test of the classification (order.go line 74).
IsCancellationAny(err) == err # Nil
IsCancellation(err) ==
    ErrorsIs(err, "Canceled") \/ ErrorsIs(err, "DeadlineExceeded")

\* Status and detail the task closure computes from what Run returned.
ClassifyKindFirst(err) ==
    IF err = Nil THEN [status |-> "ok", detail |-> ""]
    ELSE IF ErrorsAsKinder(err) # 0
         THEN [status |-> "error", detail |-> err[ErrorsAsKinder(err)]]
    ELSE IF IsCancellation(err) THEN [status |-> "canceled", detail |-> ""]
    ELSE [status |-> "error", detail |-> ""]
ClassifyDetailAlways(err) ==
    [status |-> IF err = Nil THEN "ok"
                ELSE IF IsCancellation(err) THEN "canceled" ELSE "error",
     detail |-> IF ErrorsAsKinder(err) = 0 THEN "" ELSE err[ErrorsAsKinder(err)]]
Classify(err) ==
    IF err = Nil THEN [status |-> "ok", detail |-> ""]
    ELSE IF IsCancellation(err) THEN [status |-> "canceled", detail |-> ""]
    ELSE [status |-> "error",
          detail |-> IF ErrorsAsKinder(err) = 0 THEN ""
                     ELSE err[ErrorsAsKinder(err)]]

StepResult(name, err) ==
    [name |-> name, status |-> Classify(err).status, detail |-> Classify(err).detail]

ZeroResult == [name |-> "", status |-> "", detail |-> ""]
Prefill(name) == [name |-> name, status |-> "canceled", detail |-> "operation not completed"]

----------------------------------------------------------------------------
(* The transport's error mapping (errorKind, kindToStatus, httpStatus).    *)

KindToStatus ==
    [k \in {"payment_declined", "vendor_unavailable", "no_courier", "timeout", "canceled"} |->
        IF k = "payment_declined" THEN 400
        ELSE IF k = "timeout" THEN 504
        ELSE IF k = "canceled" THEN 408
        ELSE 503]

\* errorKind: the chain's first Kind(), else the context sentinel it matches.
ErrorKindSentinelFirst(err) ==
    IF err = Nil THEN ""
    ELSE IF ErrorsIs(err, "DeadlineExceeded") THEN "timeout"
    ELSE IF ErrorsIs(err, "Canceled") THEN "canceled"
    ELSE IF ErrorsAsKinder(err) # 0 THEN err[ErrorsAsKinder(err)]
    ELSE "internal"
ErrorKind(err) ==
    IF err = Nil THEN ""
    ELSE IF ErrorsAsKinder(err) # 0 THEN err[ErrorsAsKinder(err)]
    ELSE IF ErrorsIs(err, "DeadlineExceeded") THEN "timeout"
    ELSE IF ErrorsIs(err, "Canceled") THEN "canceled"
    ELSE "internal"

HttpStatus(err) ==
    IF err = Nil THEN 200
    ELSE IF ErrorKind(err) \in DOMAIN KindToStatus THEN KindToStatus[ErrorKind(err)]
    ELSE 500

----------------------------------------------------------------------------
(* The keyed map of the map variant: map[string]StepResult.  A key that is *)
(* not in the map holds Absent.                                            *)

MapKeys == {"a", "b", "c", "d", "e", "f", "payment", "vendor", "courier"}
Absent == [name |-> "", status |-> "absent", detail |-> ""]
EmptyMap == [k \in MapKeys |-> Absent]

\* results[name] = r.
MapPut(m, name, r) == [m EXCEPT ![name] = r]

\* The loop after g.Wait: "if r, ok := results[step.Name]; ok { append }".
RECURSIVE FlattenReversed(_, _)
FlattenReversed(m, ss) ==
    IF ss = <<>> THEN <<>>
    ELSE IF m[ss[1].name] = Absent THEN FlattenReversed(m, Tail(ss))
    ELSE FlattenReversed(m, Tail(ss)) \o <<m[ss[1].name]>>
RECURSIVE Flatten(_, _)
Flatten(m, ss) ==
    IF ss = <<>> THEN <<>>
    ELSE IF m[ss[1].name] = Absent THEN Flatten(m, Tail(ss))
    ELSE <<m[ss[1].name]>> \o Flatten(m, Tail(ss))

----------------------------------------------------------------------------
VARIABLES
    steps,      \* Service.steps: the registered steps, in registration order
    req,        \* per call: the OrderRequest (failStep, amount, delay classes)
    callerCtx,  \* per call: Err() of the context the caller passed in
    ctxErr,     \* per call: Err() of the group's derived context (the scope)
    gErr,       \* per call: errgroup's recorded error (errOnce)
    pc,         \* per call: where Process is
    idx,        \* per call: number of loop iterations done (steps launched)
    out,        \* per call: the result slice
    tpc,        \* per call and step: where the step's goroutine is
    runErr,     \* per call and step: what Run returned (or will, once decided)
    ret,        \* per call: what Process returned
    firstFail,  \* per call: the step whose error the group recorded first (0: none yet)
    poolCap,    \* cap(p.sem)
    sem,        \* len(p.sem): slots taken
    sendq,      \* goroutines parked sending on p.sem, first parked first
    running,    \* Tracker.running
    cpc,        \* per direct pool caller: where it is
    cctx,       \* per direct pool caller: Err() of its context
    wokenFrom,  \* per call and step: <<the wait the scope's cancellation woke it from,
                \*   the step whose failure canceled (0: the caller's context)>>
    cparked,    \* per direct pool caller: whether its latest Acquire had to park
    errMenu,    \* the errors a step of kind "any" may return
    cerr,       \* per direct pool caller: what its latest Acquire returned
    poolSize,   \* the size handed to pool.New
    invoked,    \* per call and step: how many times step.Run was invoked
    ctxAtCall,  \* per call: Err() of the caller's context when Process was entered
    trk,        \* per direct tracker user: where it is and the Inc/Dec pairs it has done
    ctor,       \* order.New: its argument and whether it is pending, built or panicked
    trNil,      \* whether the *tracker.Tracker handed to the built-in steps is nil
    resp,       \* per call: the HTTP status the handler wrote, 0 before it did
    writes,     \* per result list and slot: the writes made to it after its pre-fill
    mu,         \* map variant, per call: the step whose closure holds mu, 0 when free
    results     \* map variant, per call: the map from step name to result

vars == <<steps, req, callerCtx, ctxErr, gErr, pc, idx, out, tpc, runErr, ret,
          firstFail, poolCap, sem, sendq, running, cpc, cctx, wokenFrom, cparked, errMenu,
          cerr, poolSize, invoked, ctxAtCall, trk, ctor, trNil, resp, writes, mu, results>>

Calls == DOMAIN pc
Callers == DOMAIN cpc
N == Len(steps)
StepIdx == 1..N

GenericKinds == {"any", "ctxerr", "waitdone", "sleep"}
BuiltinKinds == {"payment", "vendor", "courier"}

\* What a step of kind "any" may return in the orchestrator's runs: it is an
\* arbitrary function that does not look at its context.
AnyErrs == {Nil, ErrBoom, ErrDeclined, ErrUnavailable, ErrCanceled}

\* The delay class a step waits for: a generic sleeping step carries its own,
\* a built-in step takes it from the request (resolveStepDelay: never <= 0).
DelayOf(c, i) ==
    IF steps[i].kind \in BuiltinKinds THEN req[c].delay[steps[i].kind]
    ELSE steps[i].d

\* First position of a launched step's goroutine inside the closure.
EntryPc(kind) == IF kind \in {"waitdone", "sleep"} THEN "sleep" ELSE "start"

\* Where Run goes once its return value is decided: the deferred calls.
ExitPcSkipsDec(kind, holding) ==
    IF kind = "courier" /\ holding THEN "release"
    ELSE IF kind \in BuiltinKinds \ {"courier"} THEN "dec"
    ELSE "ret"
ExitPcAlwaysReleases(kind, holding) ==
    IF kind = "courier" THEN "release"
    ELSE IF kind \in BuiltinKinds THEN "dec"
    ELSE "ret"
ExitPc(kind, holding) ==
    IF kind = "courier" /\ holding THEN "release"
    ELSE IF kind \in BuiltinKinds THEN "dec"
    ELSE "ret"

\* What the step returns when its delay elapsed (the timer case was taken).
AfterDelay(c, i) ==
    LET k == steps[i].kind IN
    IF k = "payment" THEN
        IF req[c].failStep = "payment" THEN ErrDeclined
        ELSE IF req[c].amount <= 0 THEN ErrDeclined
        ELSE Nil
    ELSE IF k = "vendor" THEN
        IF req[c].failStep = "vendor" THEN ErrUnavailable ELSE Nil
    ELSE IF k = "courier" THEN
        IF req[c].failStep = "courier" THEN ErrNoCourierAvailable ELSE Nil
    ELSE Nil

----------------------------------------------------------------------------
(* Context cancellation.  Closing Done wakes every goroutine of the call   *)
(* parked in a select on it: the woken goroutine has its case fixed, so    *)
(* its return of ctx.Err() is decided here.  A context's error is set      *)
(* once.                                                                   *)

Parked(c, i) == tpc[c][i] \in {"sleepParked", "acqParked"}

\* What Run returns when its wait ended with the Done case and ctx.Err() = e:
\* "if err := ...; err != nil { return err }".
AfterCancelAlwaysCanceled(c, i, e) == ErrCanceled
AfterCancelKeepsWorking(c, i, e) == AfterDelay(c, i)
AfterCancel(c, i, e) == e

WokenPc(c, i) ==
    IF tpc[c][i] = "sleepParked" THEN ExitPc(steps[i].kind, TRUE)
    ELSE IF tpc[c][i] = "acqParked" THEN ExitPc(steps[i].kind, FALSE)
    ELSE tpc[c][i]

TpcAfterCancel(c) == [i \in StepIdx |-> WokenPc(c, i)]
RunErrAfterCancel(c, e) ==
    [i \in StepIdx |-> IF Parked(c, i) THEN AfterCancel(c, i, e) ELSE runErr[c][i]]
WokenAfterCancel(c, by) ==
    [i \in StepIdx |-> IF tpc[c][i] = "sleepParked" THEN <<"delay", by>>
                       ELSE IF tpc[c][i] = "acqParked" THEN <<"acquire", by>>
                       ELSE wokenFrom[c][i]]
SendqAfterCancel(c) ==
    SelectSeq(sendq, LAMBDA w : ~(w[1] = c /\ tpc[c][w[2]] = "acqParked"))

\* The caller's context ending cancels the derived context of call c with e.
CtxCancel(c, e) ==
    IF ctxErr[c] = Nil
    THEN /\ ctxErr' = [ctxErr EXCEPT ![c] = e]
         /\ tpc' = [tpc EXCEPT ![c] = TpcAfterCancel(c)]
         /\ runErr' = [runErr EXCEPT ![c] = RunErrAfterCancel(c, e)]
         /\ wokenFrom' = [wokenFrom EXCEPT ![c] = WokenAfterCancel(c, 0)]
         /\ sendq' = SendqAfterCancel(c)
    ELSE UNCHANGED <<ctxErr, tpc, runErr, wokenFrom, sendq>>

----------------------------------------------------------------------------
(* Service.Process                                                         *)

\* Err() of the context errgroup.WithContext(ctx) derives, at derivation: a
\* child of a context that is done is done with the same error.
WithContextFresh(c) == Nil
WithContextShared(c) ==
    IF \E c2 \in Calls : ctxErr[c2] # Nil THEN ErrCanceled ELSE callerCtx[c]
WithContext(c) == callerCtx[c]

\* order.New having returned a Service over the list ss, and no Service made.
BuiltWith(ss) == [at |-> "built", nilArg |-> FALSE, arg |-> ss]
NoService == [at |-> "pending", nilArg |-> FALSE, arg |-> <<>>]

\* The result list call c works on: "out := make(...)" is a local of the
\* call, so each call has a list of its own.
OutShared(c) == 1
OutOf(c) == c

\* errgroup.WithContext and make([]StepResult, len(s.steps)).
ProcessStart(c) ==
    /\ ctor.at = "built"
    /\ pc[c] = "idle"
    /\ pc' = [pc EXCEPT ![c] = "loop"]
    /\ ctxAtCall' = [ctxAtCall EXCEPT ![c] = callerCtx[c]]
    /\ ctxErr' = [ctxErr EXCEPT ![c] = WithContext(c)]
    /\ out' = [out EXCEPT ![OutOf(c)] = [i \in StepIdx |-> ZeroResult]]
    /\ UNCHANGED <<steps, req, callerCtx, gErr, idx, tpc, runErr, ret, firstFail,
                   poolCap, sem, sendq, running, cpc, cctx, wokenFrom, cparked, errMenu,
                   cerr, poolSize, invoked, trk, ctor, trNil, resp, writes, mu, results>>

\* Whether g.Go starts the closure, and with it step.Run: the group has no
\* limit and does not look at the context, so it always does.
StartsOnlyIfActive(c) == ctxErr[c] = Nil
Starts(c) == TRUE

\* One iteration of the loop: pre-fill the slot, g.Go the closure, whose
\* first act is to invoke step.Run.
Launch(c) ==
    /\ pc[c] = "loop"
    /\ LET i == idx[c] + 1 IN
        /\ out' = [out EXCEPT ![OutOf(c)][i] = Prefill(steps[i].name)]
        /\ IF Starts(c)
           THEN /\ tpc' = [tpc EXCEPT ![c][i] = EntryPc(steps[i].kind)]
                /\ invoked' = [invoked EXCEPT ![c][i] = @ + 1]
           ELSE /\ tpc' = [tpc EXCEPT ![c][i] = "done"]
                /\ UNCHANGED invoked
        /\ idx' = [idx EXCEPT ![c] = i]
        /\ pc' = [pc EXCEPT ![c] = IF i = N THEN "wait" ELSE "loop"]
    /\ UNCHANGED <<steps, req, callerCtx, ctxErr, gErr, runErr, ret, firstFail,
                   poolCap, sem, sendq, running, cpc, cctx, wokenFrom, cparked, errMenu, cerr, poolSize, ctxAtCall, trk, ctor, trNil, resp, writes, mu, results>>

\* The slot of out the closure of step i writes.
SlotRotated(c, i) == (i % N) + 1
Slot(c, i) == i

\* errOnce: the error the group keeps when a closure returns e.
OnceErrLast(old, e) == e
OnceErr(old, e) == IF old = Nil THEN e ELSE old

\* Whether the closure's return value makes the group cancel the scope.
CancelsNever(e) == FALSE
Cancels(e) == e # Nil

\* The error the closure of step i classifies into its slot: what its Run
\* returned, whether or not another step failed before.
RecordedIfFirst(c, i) == IF gErr[c] = Nil THEN runErr[c][i] ELSE ErrCanceled
Recorded(c, i) == runErr[c][i]

\* The closure after Run returned: classify, write the slot, return err to
\* the group, which records the first error and cancels, then wg.Done.
GoReturn(c, i) ==
    /\ tpc[c][i] = "ret"
    /\ out' = [out EXCEPT ![OutOf(c)][Slot(c, i)] = StepResult(steps[i].name, Recorded(c, i))]
    /\ writes' = [writes EXCEPT ![OutOf(c)][Slot(c, i)] = @ + 1]
    /\ firstFail' = [firstFail EXCEPT ![c] = IF runErr[c][i] # Nil /\ @ = 0 THEN i ELSE @]
    /\ IF runErr[c][i] # Nil
       THEN gErr' = [gErr EXCEPT ![c] = OnceErr(@, runErr[c][i])]
       ELSE UNCHANGED gErr
    /\ IF runErr[c][i] # Nil /\ gErr[c] = Nil /\ Cancels(runErr[c][i]) /\ ctxErr[c] = Nil
       THEN /\ ctxErr' = [ctxErr EXCEPT ![c] = ErrCanceled]
            /\ tpc' = [tpc EXCEPT ![c] = [TpcAfterCancel(c) EXCEPT ![i] = "done"]]
            /\ runErr' = [runErr EXCEPT ![c] = RunErrAfterCancel(c, ErrCanceled)]
            /\ wokenFrom' = [wokenFrom EXCEPT ![c] = WokenAfterCancel(c, i)]
            /\ sendq' = SendqAfterCancel(c)
       ELSE /\ tpc' = [tpc EXCEPT ![c][i] = "done"]
            /\ UNCHANGED <<ctxErr, runErr, wokenFrom, sendq>>
    /\ UNCHANGED <<steps, req, callerCtx, pc, idx, ret, poolCap, sem, running, cpc, cctx, cparked,
                   errMenu, cerr, poolSize, invoked, ctxAtCall, trk, ctor, trNil, resp, mu, results>>

\* g.Wait returns once every closure has ended.
JoinedAny(c) == \E i \in StepIdx : tpc[c][i] = "done"
Joined(c) == \A i \in StepIdx : tpc[c][i] = "done"

\* The error Process returns: "err := g.Wait(); return out, err".
WaitErrDropped(c) == Nil
WaitErr(c) == gErr[c]

\* g.Wait: wg.Wait, cancel, return g.err; Process returns out and that error.
Wait(c) ==
    /\ pc[c] = "wait"
    /\ Joined(c)
    /\ pc' = [pc EXCEPT ![c] = "returned"]
    /\ ctxErr' = [ctxErr EXCEPT ![c] = IF @ = Nil THEN ErrCanceled ELSE @]
    /\ ret' = [ret EXCEPT ![c] = [results |-> out[OutOf(c)], err |-> WaitErr(c)]]
    /\ UNCHANGED <<steps, req, callerCtx, gErr, idx, out, tpc, runErr, firstFail,
                   poolCap, sem, sendq, running, cpc, cctx, wokenFrom, cparked, errMenu, cerr, poolSize, invoked, ctxAtCall, trk, ctor, trNil, resp, writes, mu, results>>

----------------------------------------------------------------------------
(* Service.Process, keyed-map variant: the closures store their results in *)
(* a map under a mutex and the list is built from the map after g.Wait.    *)

\* errgroup.WithContext, make(map[string]StepResult, ...) and var mu.
MapProcessStart(c) ==
    /\ ctor.at = "built"
    /\ pc[c] = "idle"
    /\ pc' = [pc EXCEPT ![c] = "loop"]
    /\ ctxAtCall' = [ctxAtCall EXCEPT ![c] = callerCtx[c]]
    /\ ctxErr' = [ctxErr EXCEPT ![c] = WithContext(c)]
    /\ results' = [results EXCEPT ![c] = EmptyMap]
    /\ mu' = [mu EXCEPT ![c] = 0]
    /\ UNCHANGED <<steps, req, callerCtx, gErr, idx, out, tpc, runErr, ret, firstFail,
                   poolCap, sem, sendq, running, cpc, cctx, wokenFrom, cparked, errMenu,
                   cerr, poolSize, invoked, trk, ctor, trNil, resp, writes>>

\* One iteration of the loop: g.Go the closure, which invokes step.Run.
MapLaunch(c) ==
    /\ pc[c] = "loop"
    /\ LET i == idx[c] + 1 IN
        /\ tpc' = [tpc EXCEPT ![c][i] = EntryPc(steps[i].kind)]
        /\ invoked' = [invoked EXCEPT ![c][i] = @ + 1]
        /\ idx' = [idx EXCEPT ![c] = i]
        /\ pc' = [pc EXCEPT ![c] = IF i = N THEN "wait" ELSE "loop"]
    /\ UNCHANGED <<steps, req, callerCtx, ctxErr, gErr, out, runErr, ret, firstFail,
                   poolCap, sem, sendq, running, cpc, cctx, wokenFrom, cparked, errMenu,
                   cerr, poolSize, ctxAtCall, trk, ctor, trNil, resp, writes, mu, results>>

\* Whether mu.Lock() can proceed.
MuFreeAlways(c) == TRUE
MuFree(c) == mu[c] = 0

\* mu.Lock(), after Run returned and its error was classified.
MapLock(c, i) ==
    /\ tpc[c][i] = "ret"
    /\ MuFree(c)
    /\ mu' = [mu EXCEPT ![c] = i]
    /\ tpc' = [tpc EXCEPT ![c][i] = "locked"]
    /\ UNCHANGED <<steps, req, callerCtx, ctxErr, gErr, pc, idx, out, runErr, ret, firstFail,
                   poolCap, sem, sendq, running, cpc, cctx, wokenFrom, cparked, errMenu,
                   cerr, poolSize, invoked, ctxAtCall, trk, ctor, trNil, resp, writes, results>>

\* results[step.Name] = model.StepResult{...}.
MapWrite(c, i) ==
    /\ tpc[c][i] = "locked"
    /\ results' = [results EXCEPT ![c] =
                     MapPut(@, steps[i].name, StepResult(steps[i].name, Recorded(c, i)))]
    /\ tpc' = [tpc EXCEPT ![c][i] = "written"]
    /\ UNCHANGED <<steps, req, callerCtx, ctxErr, gErr, pc, idx, out, runErr, ret, firstFail,
                   poolCap, sem, sendq, running, cpc, cctx, wokenFrom, cparked, errMenu,
                   cerr, poolSize, invoked, ctxAtCall, trk, ctor, trNil, resp, writes, mu>>

\* mu.Unlock().
MapUnlock(c, i) ==
    /\ tpc[c][i] = "written"
    /\ mu' = [mu EXCEPT ![c] = 0]
    /\ tpc' = [tpc EXCEPT ![c][i] = "unlocked"]
    /\ UNCHANGED <<steps, req, callerCtx, ctxErr, gErr, pc, idx, out, runErr, ret, firstFail,
                   poolCap, sem, sendq, running, cpc, cctx, wokenFrom, cparked, errMenu,
                   cerr, poolSize, invoked, ctxAtCall, trk, ctor, trNil, resp, writes, results>>

\* "return err": the group records the first error and cancels, then wg.Done.
MapGoReturn(c, i) ==
    /\ tpc[c][i] = "unlocked"
    /\ firstFail' = [firstFail EXCEPT ![c] = IF runErr[c][i] # Nil /\ @ = 0 THEN i ELSE @]
    /\ IF runErr[c][i] # Nil
       THEN gErr' = [gErr EXCEPT ![c] = OnceErr(@, runErr[c][i])]
       ELSE UNCHANGED gErr
    /\ IF runErr[c][i] # Nil /\ gErr[c] = Nil /\ Cancels(runErr[c][i]) /\ ctxErr[c] = Nil
       THEN /\ ctxErr' = [ctxErr EXCEPT ![c] = ErrCanceled]
            /\ tpc' = [tpc EXCEPT ![c] = [TpcAfterCancel(c) EXCEPT ![i] = "done"]]
            /\ runErr' = [runErr EXCEPT ![c] = RunErrAfterCancel(c, ErrCanceled)]
            /\ wokenFrom' = [wokenFrom EXCEPT ![c] = WokenAfterCancel(c, i)]
            /\ sendq' = SendqAfterCancel(c)
       ELSE /\ tpc' = [tpc EXCEPT ![c][i] = "done"]
            /\ UNCHANGED <<ctxErr, runErr, wokenFrom, sendq>>
    /\ UNCHANGED <<steps, req, callerCtx, pc, idx, out, ret, poolCap, sem, running, cpc, cctx,
                   cparked, errMenu, cerr, poolSize, invoked, ctxAtCall, trk, ctor, trNil,
                   resp, writes, mu, results>>

\* g.Wait, then the list is built from the map and returned with the error.
MapWait(c) ==
    /\ pc[c] = "wait"
    /\ Joined(c)
    /\ pc' = [pc EXCEPT ![c] = "returned"]
    /\ ctxErr' = [ctxErr EXCEPT ![c] = IF @ = Nil THEN ErrCanceled ELSE @]
    /\ ret' = [ret EXCEPT ![c] = [results |-> Flatten(results[c], steps), err |-> WaitErr(c)]]
    /\ UNCHANGED <<steps, req, callerCtx, gErr, idx, out, tpc, runErr, firstFail,
                   poolCap, sem, sendq, running, cpc, cctx, wokenFrom, cparked, errMenu,
                   cerr, poolSize, invoked, ctxAtCall, trk, ctor, trNil, resp, writes, mu, results>>

----------------------------------------------------------------------------
(* The caller's context.                                                   *)

CallerEnds(c, e) ==
    /\ callerCtx[c] = Nil
    /\ pc[c] # "returned"
    /\ callerCtx' = [callerCtx EXCEPT ![c] = e]
    /\ IF pc[c] = "idle"
       THEN UNCHANGED <<ctxErr, tpc, runErr, wokenFrom, sendq>>
       ELSE CtxCancel(c, e)
    /\ UNCHANGED <<steps, req, gErr, pc, idx, out, ret, firstFail,
                   poolCap, sem, running, cpc, cctx, cparked, errMenu, cerr, poolSize, invoked, ctxAtCall, trk, ctor, trNil, resp, writes, mu, results>>

\* The caller cancels the context it passed.
CallerCancel(c) == CallerEnds(c, ErrCanceled)

\* The deadline of the context the caller passed elapses.
CallerDeadline(c) == CallerEnds(c, ErrDeadlineExceeded)

----------------------------------------------------------------------------
(* Generic step bodies (the shapes the orchestrator's tests use).          *)

\* A step that ignores its context and returns whatever it decides.
AnyReturn(c, i) ==
    /\ tpc[c][i] = "start"
    /\ steps[i].kind = "any"
    /\ \E e \in errMenu :
        /\ runErr' = [runErr EXCEPT ![c][i] = e]
        /\ tpc' = [tpc EXCEPT ![c][i] = "ret"]
    /\ UNCHANGED <<steps, req, callerCtx, ctxErr, gErr, pc, idx, out, ret, firstFail,
                   poolCap, sem, sendq, running, cpc, cctx, wokenFrom, cparked, errMenu, cerr, poolSize, invoked, ctxAtCall, trk, ctor, trNil, resp, writes, mu, results>>

\* A step that returns ctx.Err() at once.
CtxErrReturn(c, i) ==
    /\ tpc[c][i] = "start"
    /\ steps[i].kind = "ctxerr"
    /\ runErr' = [runErr EXCEPT ![c][i] = ctxErr[c]]
    /\ tpc' = [tpc EXCEPT ![c][i] = "ret"]
    /\ UNCHANGED <<steps, req, callerCtx, ctxErr, gErr, pc, idx, out, ret, firstFail,
                   poolCap, sem, sendq, running, cpc, cctx, wokenFrom, cparked, errMenu, cerr, poolSize, invoked, ctxAtCall, trk, ctor, trNil, resp, writes, mu, results>>

----------------------------------------------------------------------------
(* The cancelable delay: select { case <-t.C: nil; case <-ctx.Done():      *)
(* ctx.Err() }.  A waitdone step is the same select without the timer.     *)

HasTimer(c, i) == steps[i].kind # "waitdone" /\ DelayOf(c, i) = "short"

\* "if d <= 0 { return nil }": the delay classes that return at once.
SleepImmediateNever(d) == FALSE
SleepImmediate(d) == d = "zero"

Decide(c, i, e, holding) ==
    /\ runErr' = [runErr EXCEPT ![c][i] = e]
    /\ tpc' = [tpc EXCEPT ![c][i] = ExitPc(steps[i].kind, holding)]

\* Entering the delay.  d <= 0 returns nil at once.  Otherwise a case that
\* is ready is taken (either, when both are); with none ready the goroutine
\* parks.  A short timer may already have fired when the select is reached.
SleepEnter(c, i) ==
    /\ tpc[c][i] = "sleep"
    /\ IF steps[i].kind # "waitdone" /\ SleepImmediate(DelayOf(c, i))
       THEN Decide(c, i, AfterDelay(c, i), TRUE)
       ELSE \/ /\ HasTimer(c, i)
               /\ Decide(c, i, AfterDelay(c, i), TRUE)
            \/ /\ ctxErr[c] # Nil
               /\ Decide(c, i, ctxErr[c], TRUE)
            \/ /\ ctxErr[c] = Nil
               /\ tpc' = [tpc EXCEPT ![c][i] = "sleepParked"]
               /\ UNCHANGED runErr
    /\ UNCHANGED <<steps, req, callerCtx, ctxErr, gErr, pc, idx, out, ret, firstFail,
                   poolCap, sem, sendq, running, cpc, cctx, wokenFrom, cparked, errMenu, cerr, poolSize, invoked, ctxAtCall, trk, ctor, trNil, resp, writes, mu, results>>

\* The timer fires while the goroutine is parked: it wakes with the timer case.
TimerFire(c, i) ==
    /\ tpc[c][i] = "sleepParked"
    /\ HasTimer(c, i)
    /\ Decide(c, i, AfterDelay(c, i), TRUE)
    /\ UNCHANGED <<steps, req, callerCtx, ctxErr, gErr, pc, idx, out, ret, firstFail,
                   poolCap, sem, sendq, running, cpc, cctx, wokenFrom, cparked, errMenu, cerr, poolSize, invoked, ctxAtCall, trk, ctor, trNil, resp, writes, mu, results>>

----------------------------------------------------------------------------
(* The pool: a buffered channel of capacity poolCap.  A send proceeds when *)
(* the buffer has room; otherwise the sender parks on the channel's send   *)
(* queue.  A receive from a full buffer with parked senders takes one slot *)
(* out and moves the first parked sender's value in, waking that sender.   *)
(* A waiter is <<c, i>> for step i of call c, <<0, p>> for direct caller p.*)

\* pool.New: the capacity of the channel made for a requested size.
PoolNewUnclamped(size) == IF size <= 0 THEN 1 ELSE size
PoolNew(size) == IF size <= 0 THEN 1 ELSE IF size > 128 THEN 128 ELSE size

\* Whether "p.sem <- struct{}{}" can proceed.
SlotFreeOffByOne == sem <= poolCap
SlotFree == sem < poolCap

\* The parked senders a receive on p.sem wakes.
ReleaseWakesAll == {sendq[k] : k \in 1..Len(sendq)}
ReleaseWakesNone == {}
ReleaseWakes == IF sendq = <<>> THEN {} ELSE {sendq[1]}

\* Pool.Release: <-p.sem.
ReleaseSlot ==
    /\ sem' = sem - 1 + Cardinality(ReleaseWakes)
    /\ sendq' = SelectSeq(sendq, LAMBDA w : w \notin ReleaseWakes)

----------------------------------------------------------------------------
(* The tracker: an atomic counter, so Inc and Dec are one step each.       *)

\* Tracker.Inc: t.running.Add(1).
AfterIncLost(n) == n
AfterInc(n) == n + 1

\* Tracker.Dec: t.running.Add(-1).
AfterDecLost(n) == n
AfterDec(n) == n - 1

----
(* The built-in steps: payment.Process, vendor.Notify, courier.Assign.     *)

\* Whether the step tests "tr != nil" before tr.Inc() and "defer tr.Dec()".
\* Inc on a nil *Tracker dereferences it (t.running.Add): a nil-pointer panic.
NilGuarded(kind) == kind \in {"courier", "vendor"}

\* tr.Inc() and the delay lookup at the top of a built-in step.
StepBegin(c, i) ==
    /\ tpc[c][i] = "start"
    /\ steps[i].kind \in BuiltinKinds
    /\ IF trNil /\ ~NilGuarded(steps[i].kind)
       THEN /\ tpc' = [tpc EXCEPT ![c][i] = "panicked"]
            /\ UNCHANGED running
       ELSE /\ running' = IF trNil THEN running ELSE AfterInc(running)
            /\ tpc' = [tpc EXCEPT ![c][i] =
                         IF steps[i].kind = "courier" THEN "acquire" ELSE "sleep"]
    /\ UNCHANGED <<steps, req, callerCtx, ctxErr, gErr, pc, idx, out, runErr, ret, firstFail,
                   poolCap, sem, sendq, cpc, cctx, wokenFrom, cparked, errMenu, cerr, poolSize, invoked, ctxAtCall, trk, ctor, trNil, resp, writes, mu, results>>

\* courier.Assign entering l.Acquire(ctx): select on the send and on Done.
AcquireEnter(c, i) ==
    /\ tpc[c][i] = "acquire"
    /\ \/ /\ SlotFree
          /\ sem' = sem + 1
          /\ tpc' = [tpc EXCEPT ![c][i] = "sleep"]
          /\ UNCHANGED <<runErr, sendq>>
       \/ /\ ctxErr[c] # Nil
          /\ Decide(c, i, AfterCancel(c, i, ctxErr[c]), FALSE)
          /\ UNCHANGED <<sem, sendq>>
       \/ /\ ~SlotFree
          /\ ctxErr[c] = Nil
          /\ sendq' = Append(sendq, <<c, i>>)
          /\ tpc' = [tpc EXCEPT ![c][i] = "acqParked"]
          /\ UNCHANGED <<runErr, sem>>
    /\ UNCHANGED <<steps, req, callerCtx, ctxErr, gErr, pc, idx, out, ret, firstFail,
                   poolCap, running, cpc, cctx, wokenFrom, cparked, errMenu, cerr, poolSize, invoked, ctxAtCall, trk, ctor, trNil, resp, writes, mu, results>>

\* The deferred l.Release() of courier.Assign.
Release(c, i) ==
    /\ tpc[c][i] = "release"
    /\ ReleaseSlot
    /\ tpc' = [c2 \in Calls |-> [i2 \in StepIdx |->
                 IF <<c2, i2>> \in ReleaseWakes THEN "sleep"
                 ELSE IF c2 = c /\ i2 = i THEN "dec"
                 ELSE tpc[c2][i2]]]
    /\ cpc' = [q \in Callers |-> IF <<0, q>> \in ReleaseWakes THEN "holding" ELSE cpc[q]]
    /\ UNCHANGED <<steps, req, callerCtx, ctxErr, gErr, pc, idx, out, runErr, ret, firstFail,
                   poolCap, running, cctx, wokenFrom, cparked, errMenu, cerr, poolSize, invoked, ctxAtCall, trk, ctor, trNil, resp, writes, mu, results>>

\* The deferred tr.Dec(), registered only with a tracker; Run has returned
\* after it.
Dec(c, i) ==
    /\ tpc[c][i] = "dec"
    /\ running' = IF trNil THEN running ELSE AfterDec(running)
    /\ tpc' = [tpc EXCEPT ![c][i] = "ret"]
    /\ UNCHANGED <<steps, req, callerCtx, ctxErr, gErr, pc, idx, out, runErr, ret, firstFail,
                   poolCap, sem, sendq, cpc, cctx, wokenFrom, cparked, errMenu, cerr, poolSize, invoked, ctxAtCall, trk, ctor, trNil, resp, writes, mu, results>>

----------------------------------------------------------------------------
(* Direct callers of the pool, each pairing Release with a successful      *)
(* Acquire (the pool's own tests).                                         *)

\* Pool.Acquire(ctx) by caller p.
PoolAcquire(p) ==
    /\ cpc[p] = "idle"
    /\ \/ /\ SlotFree
          /\ sem' = sem + 1
          /\ cpc' = [cpc EXCEPT ![p] = "holding"]
          /\ cparked' = [cparked EXCEPT ![p] = FALSE]
          /\ cerr' = [cerr EXCEPT ![p] = Nil]
          /\ UNCHANGED sendq
       \/ /\ cctx[p] # Nil
          /\ cpc' = [cpc EXCEPT ![p] = "failed"]
          /\ cparked' = [cparked EXCEPT ![p] = FALSE]
          /\ cerr' = [cerr EXCEPT ![p] = cctx[p]]
          /\ UNCHANGED <<sem, sendq>>
       \/ /\ ~SlotFree
          /\ cctx[p] = Nil
          /\ sendq' = Append(sendq, <<0, p>>)
          /\ cpc' = [cpc EXCEPT ![p] = "parked"]
          /\ cparked' = [cparked EXCEPT ![p] = TRUE]
          /\ cerr' = [cerr EXCEPT ![p] = Nil]
          /\ UNCHANGED sem
    /\ UNCHANGED <<steps, req, callerCtx, ctxErr, gErr, pc, idx, out, tpc, runErr, ret,
                   firstFail, poolCap, running, cctx, wokenFrom, errMenu, poolSize, invoked, ctxAtCall, trk, ctor, trNil, resp, writes, mu, results>>

\* Pool.Release() by caller p, which holds a slot.
PoolRelease(p) ==
    /\ cpc[p] = "holding"
    /\ ReleaseSlot
    /\ cpc' = [q \in Callers |->
                 IF <<0, q>> \in ReleaseWakes THEN "holding"
                 ELSE IF q = p THEN "idle"
                 ELSE cpc[q]]
    /\ tpc' = [c2 \in Calls |-> [i2 \in StepIdx |->
                 IF <<c2, i2>> \in ReleaseWakes THEN "sleep" ELSE tpc[c2][i2]]]
    /\ UNCHANGED <<steps, req, callerCtx, ctxErr, gErr, pc, idx, out, runErr, ret,
                   firstFail, poolCap, running, cctx, wokenFrom, cparked, errMenu, cerr, poolSize, invoked, ctxAtCall, trk, ctor, trNil, resp, writes, mu, results>>

\* What a caller parked in Acquire does when its context ends with e: the
\* Done case wakes it and Acquire returns ctx.Err().
WokenCallerStaysParked(p, e) ==
    /\ cctx' = [cctx EXCEPT ![p] = e]
    /\ UNCHANGED <<cpc, sendq, cerr>>
WokenCaller(p, e) ==
    /\ cctx' = [cctx EXCEPT ![p] = e]
    /\ IF cpc[p] = "parked"
       THEN /\ cpc' = [cpc EXCEPT ![p] = "failed"]
            /\ cerr' = [cerr EXCEPT ![p] = e]
            /\ sendq' = SelectSeq(sendq, LAMBDA w : w # <<0, p>>)
       ELSE UNCHANGED <<cpc, sendq, cerr>>

\* The context of caller p is canceled or passes its deadline.
PoolCtxEnds(p) ==
    /\ cctx[p] = Nil
    /\ \E e \in {ErrCanceled, ErrDeadlineExceeded} : WokenCaller(p, e)
    /\ UNCHANGED <<steps, req, callerCtx, ctxErr, gErr, pc, idx, out, tpc, runErr, ret,
                   firstFail, poolCap, sem, running, wokenFrom, cparked, errMenu, poolSize, invoked, ctxAtCall, trk, ctor, trNil, resp, writes, mu, results>>

----------------------------------------------------------------------------
(* The generic orchestrator: one Process call over any registered list of  *)
(* generic steps.                                                          *)

GenericBodies ==
    {[kind |-> "any", d |-> "zero"], [kind |-> "ctxerr", d |-> "zero"],
     [kind |-> "waitdone", d |-> "zero"],
     [kind |-> "sleep", d |-> "short"], [kind |-> "sleep", d |-> "far"]}

StepLists ==
    UNION {[1..n -> GenericBodies] : n \in 1..MaxSteps}

Named(bodies) ==
    [i \in 1..Len(bodies) |->
        [name |-> StepNames[i], kind |-> bodies[i].kind, d |-> bodies[i].d]]

NoRequest == [failStep |-> "", amount |-> 1, delay |-> <<>>]

InitCalls(cs, n, rs) ==
    /\ req \in [cs -> rs]
    /\ callerCtx = [c \in cs |-> Nil]
    /\ ctxErr = [c \in cs |-> Nil]
    /\ gErr = [c \in cs |-> Nil]
    /\ pc = [c \in cs |-> "idle"]
    /\ idx = [c \in cs |-> 0]
    /\ out = [c \in cs |-> <<>>]
    /\ tpc = [c \in cs |-> [i \in 1..n |-> "idle"]]
    /\ runErr = [c \in cs |-> [i \in 1..n |-> Nil]]
    /\ ret = [c \in cs |-> [results |-> <<>>, err |-> Nil]]
    /\ firstFail = [c \in cs |-> 0]
    /\ resp = [c \in cs |-> 0]
    /\ writes = [c \in cs |-> [i \in 1..n |-> 0]]
    /\ mu = [c \in cs |-> 0]
    /\ results = [c \in cs |-> EmptyMap]
    /\ wokenFrom = [c \in cs |-> [i \in 1..n |-> <<"", 0>>]]
    /\ invoked = [c \in cs |-> [i \in 1..n |-> 0]]
    /\ ctxAtCall = [c \in cs |-> Nil]

InitNoPool ==
    /\ poolSize = 0
    /\ poolCap = PoolNew(poolSize)
    /\ sem = 0
    /\ sendq = <<>>
    /\ running = 0
    /\ cpc = <<>>
    /\ cctx = <<>>
    /\ cparked = <<>>
    /\ cerr = <<>>
    /\ trk = <<>>

Init ==
    /\ \E bodies \in StepLists : steps = Named(bodies)
    /\ InitCalls({1}, Len(steps), {NoRequest})
    /\ ctor = BuiltWith(steps)
    /\ trNil = FALSE
    /\ InitNoPool
    /\ errMenu = AnyErrs

Next ==
    \E c \in Calls :
        \/ ProcessStart(c)
        \/ Launch(c)
        \/ Wait(c)
        \/ CallerCancel(c)
        \/ CallerDeadline(c)
        \/ \E i \in StepIdx :
            \/ AnyReturn(c, i)
            \/ CtxErrReturn(c, i)
            \/ SleepEnter(c, i)
            \/ TimerFire(c, i)
            \/ GoReturn(c, i)

Spec == Init /\ [][Next]_vars

----------------------------------------------------------------------------
(* The classification alone: one Process call over a single step that may  *)
(* return any error chain up to MaxChain layers.                           *)

\* Longest error chain explored.
MaxChain == 3

Layers == {"wrap", "boom", "Canceled", "DeadlineExceeded"} \cup KindLayers
Chains == UNION {[1..n -> Layers] : n \in 0..MaxChain}

InitClassify ==
    /\ steps = Named(<<[kind |-> "any", d |-> "zero"]>>)
    /\ InitCalls({1}, 1, {NoRequest})
    /\ ctor = BuiltWith(steps)
    /\ trNil = FALSE
    /\ InitNoPool
    /\ errMenu = Chains

NextClassify ==
    \E c \in Calls :
        \/ ProcessStart(c)
        \/ Launch(c)
        \/ Wait(c)
        \/ CallerCancel(c)
        \/ CallerDeadline(c)
        \/ \E i \in StepIdx :
            \/ AnyReturn(c, i)
            \/ GoReturn(c, i)

SpecClassify == InitClassify /\ [][NextClassify]_vars

\* HandleOrder after Process returned: writeJSON(w, httpStatus(err), resp).
Respond(c) ==
    /\ pc[c] = "returned"
    /\ resp[c] = 0
    /\ resp' = [resp EXCEPT ![c] = HttpStatus(ret[c].err)]
    /\ UNCHANGED <<steps, req, callerCtx, ctxErr, gErr, pc, idx, out, tpc, runErr, ret,
                   firstFail, poolCap, sem, sendq, running, cpc, cctx, wokenFrom, cparked,
                   errMenu, cerr, poolSize, invoked, ctxAtCall, trk, ctor, trNil, writes, mu, results>>

\* The handler over a call whose single step may return any error chain.
NextStatus ==
    \/ NextClassify
    \/ \E c \in Calls : Respond(c)

SpecStatus == InitClassify /\ [][NextStatus]_vars

----------------------------------------------------------------------------
(* The pool alone, under direct callers.                                   *)

\* Direct callers explored, and the largest size handed to pool.New.
MaxCallers == 3
MaxPoolSize == 2

\* The sizes handed to pool.New: the small ones and those around the clamp.
PoolSizes == (-1..MaxPoolSize) \cup {-129, 127, 128, 129, 1000}

InitPool ==
    /\ steps = <<>>
    /\ InitCalls({}, 0, {NoRequest})
    /\ ctor = NoService
    /\ trNil = FALSE
    /\ poolSize \in PoolSizes
    /\ poolCap = PoolNew(poolSize)
    /\ sem = 0
    /\ sendq = <<>>
    /\ running = 0
    /\ cpc = [p \in 1..MaxCallers |-> "idle"]
    /\ cctx = [p \in 1..MaxCallers |-> Nil]
    /\ cparked = [p \in 1..MaxCallers |-> FALSE]
    /\ cerr = [p \in 1..MaxCallers |-> Nil]
    /\ trk = <<>>
    /\ errMenu = {}

NextPool ==
    \E p \in Callers :
        \/ PoolAcquire(p)
        \/ PoolRelease(p)
        \/ PoolCtxEnds(p)

SpecPool == InitPool /\ [][NextPool]_vars

----------------------------------------------------------------------------
(* The wired pipeline: one Process call over payment, vendor and courier,  *)
(* with the pool shared with other users (the couriers of other requests), *)
(* which appear as direct callers of the pool.                             *)

\* Other users of the pool explored beside the call.
PipeCallers == 1

BuiltinSteps ==
    <<[name |-> "payment", kind |-> "payment", d |-> "short"],
      [name |-> "vendor", kind |-> "vendor", d |-> "short"],
      [name |-> "courier", kind |-> "courier", d |-> "short"]>>

DelayClasses ==
    {[payment |-> "short", vendor |-> "short", courier |-> "short"],
     [payment |-> "short", vendor |-> "far", courier |-> "far"]}

Requests ==
    {[failStep |-> f, amount |-> 1, delay |-> dl] :
        f \in {"", "payment", "vendor", "courier"}, dl \in DelayClasses}
    \cup {[failStep |-> "", amount |-> 0, delay |-> dl] : dl \in DelayClasses}

InitPipe ==
    /\ steps = BuiltinSteps
    /\ InitCalls({1}, Len(BuiltinSteps), Requests)
    /\ ctor = BuiltWith(steps)
    /\ trNil = FALSE
    /\ poolSize \in 1..PipeCallers
    /\ poolCap = PoolNew(poolSize)
    /\ sem = 0
    /\ sendq = <<>>
    /\ running = 0
    /\ cpc = [p \in 1..PipeCallers |-> "idle"]
    /\ cctx = [p \in 1..PipeCallers |-> Nil]
    /\ cparked = [p \in 1..PipeCallers |-> FALSE]
    /\ cerr = [p \in 1..PipeCallers |-> Nil]
    /\ trk = <<>>
    /\ errMenu = {}

NextPipe ==
    \/ \E c \in Calls :
        \/ ProcessStart(c)
        \/ Launch(c)
        \/ Wait(c)
        \/ CallerCancel(c)
        \/ CallerDeadline(c)
        \/ \E i \in StepIdx :
            \/ StepBegin(c, i)
            \/ AcquireEnter(c, i)
            \/ SleepEnter(c, i)
            \/ TimerFire(c, i)
            \/ Release(c, i)
            \/ Dec(c, i)
            \/ GoReturn(c, i)
    \/ \E p \in Callers :
        \/ PoolAcquire(p)
        \/ PoolRelease(p)
        \/ PoolCtxEnds(p)

SpecPipe == InitPipe /\ [][NextPipe]_vars

----------------------------------------------------------------------------
(* The built-in steps run without a tracker: one Process call over         *)
(* payment, vendor and courier, each handed the same tracker, nil or not.  *)

InitNilTracker ==
    /\ steps = BuiltinSteps
    /\ InitCalls({1}, Len(BuiltinSteps), Requests)
    /\ ctor = BuiltWith(steps)
    /\ trNil \in BOOLEAN
    /\ poolSize = 1
    /\ poolCap = PoolNew(poolSize)
    /\ sem = 0
    /\ sendq = <<>>
    /\ running = 0
    /\ cpc = <<>>
    /\ cctx = <<>>
    /\ cparked = <<>>
    /\ cerr = <<>>
    /\ trk = <<>>
    /\ errMenu = {}

NextNilTracker ==
    \E c \in Calls :
        \/ ProcessStart(c)
        \/ Launch(c)
        \/ Wait(c)
        \/ CallerCancel(c)
        \/ CallerDeadline(c)
        \/ \E i \in StepIdx :
            \/ StepBegin(c, i)
            \/ AcquireEnter(c, i)
            \/ SleepEnter(c, i)
            \/ TimerFire(c, i)
            \/ Release(c, i)
            \/ Dec(c, i)
            \/ GoReturn(c, i)

SpecNilTracker == InitNilTracker /\ [][NextNilTracker]_vars

----------------------------------------------------------------------------
(* The keyed-map variant: one Process call over generic steps whose names  *)
(* may repeat.                                                             *)

\* Longest step list given to the map variant.
MaxMapSteps == 2

MapBodies ==
    {[kind |-> "any", d |-> "zero"], [kind |-> "waitdone", d |-> "zero"],
     [kind |-> "sleep", d |-> "short"]}

NamedBy(bodies, names) ==
    [i \in 1..Len(bodies) |->
        [name |-> names[i], kind |-> bodies[i].kind, d |-> bodies[i].d]]

MapStepLists ==
    UNION {{NamedBy(bodies, names) :
                bodies \in [1..n -> MapBodies],
                names \in [1..n -> {StepNames[k] : k \in 1..n}]} : n \in 1..MaxMapSteps}

UniqueNames == \A i, j \in StepIdx : steps[i].name = steps[j].name => i = j

InitMap ==
    /\ steps \in MapStepLists
    /\ InitCalls({1}, Len(steps), {NoRequest})
    /\ ctor = BuiltWith(steps)
    /\ trNil = FALSE
    /\ InitNoPool
    /\ errMenu = {Nil, ErrBoom, ErrDeclined}

NextMap ==
    \E c \in Calls :
        \/ MapProcessStart(c)
        \/ MapLaunch(c)
        \/ MapWait(c)
        \/ CallerCancel(c)
        \/ CallerDeadline(c)
        \/ \E i \in StepIdx :
            \/ AnyReturn(c, i)
            \/ SleepEnter(c, i)
            \/ TimerFire(c, i)
            \/ MapLock(c, i)
            \/ MapWrite(c, i)
            \/ MapUnlock(c, i)
            \/ MapGoReturn(c, i)

SpecMap == InitMap /\ [][NextMap]_vars

----------------------------------------------------------------------------
(* The two variants side by side: call 1 is run by the array variant and   *)
(* call 2 by the map variant, over the same step list, under live caller   *)
(* contexts.                                                               *)

ArrayCall == 1
MapCall == 2

InitBoth ==
    /\ steps \in MapStepLists
    /\ InitCalls({ArrayCall, MapCall}, Len(steps), {NoRequest})
    /\ ctor = BuiltWith(steps)
    /\ trNil = FALSE
    /\ InitNoPool
    /\ errMenu = {Nil, ErrBoom, ErrDeclined}

NextBoth ==
    \/ ProcessStart(ArrayCall)
    \/ Launch(ArrayCall)
    \/ Wait(ArrayCall)
    \/ MapProcessStart(MapCall)
    \/ MapLaunch(MapCall)
    \/ MapWait(MapCall)
    \/ \E i \in StepIdx :
        \/ GoReturn(ArrayCall, i)
        \/ MapLock(MapCall, i)
        \/ MapWrite(MapCall, i)
        \/ MapUnlock(MapCall, i)
        \/ MapGoReturn(MapCall, i)
    \/ \E c \in Calls : \E i \in StepIdx :
        \/ AnyReturn(c, i)
        \/ SleepEnter(c, i)
        \/ TimerFire(c, i)

SpecBoth == InitBoth /\ [][NextBoth]_vars

----------------------------------------------------------------------------
(* The cancelable delay alone: one Process call whose steps are calls of   *)
(* SleepOrDone with a zero, a short or a far duration, beside steps that   *)
(* may fail and so cancel the scope.                                       *)

\* Longest list of delaying steps.
MaxSleepers == 2

SleepBodies ==
    {[kind |-> "sleep", d |-> "zero"], [kind |-> "sleep", d |-> "short"],
     [kind |-> "sleep", d |-> "far"], [kind |-> "any", d |-> "zero"]}

InitSleep ==
    /\ \E bodies \in UNION {[1..n -> SleepBodies] : n \in 1..MaxSleepers} :
           steps = Named(bodies)
    /\ InitCalls({1}, Len(steps), {NoRequest})
    /\ ctor = BuiltWith(steps)
    /\ trNil = FALSE
    /\ InitNoPool
    /\ errMenu = {Nil, ErrBoom}

NextSleep ==
    \E c \in Calls :
        \/ ProcessStart(c)
        \/ Launch(c)
        \/ Wait(c)
        \/ CallerCancel(c)
        \/ CallerDeadline(c)
        \/ \E i \in StepIdx :
            \/ AnyReturn(c, i)
            \/ SleepEnter(c, i)
            \/ TimerFire(c, i)
            \/ GoReturn(c, i)

SpecSleep == InitSleep /\ [][NextSleep]_vars

----
(* Construction: order.New applied to a nil, an empty or a non-empty list  *)
(* of steps, followed by a Process call on the Service it returned.        *)

\* Longest list handed to order.New.
MaxNewSteps == 2

NewArgs ==
    {[at |-> "pending", nilArg |-> TRUE, arg |-> <<>>]}
    \cup {[at |-> "pending", nilArg |-> FALSE, arg |-> Named(bodies)] :
            bodies \in UNION {[1..n -> GenericBodies] : n \in 0..MaxNewSteps}}

\* "if len(steps) == 0 { panic(...) }": len of a nil slice is 0.
NewPanicsNever(arg) == FALSE
NewPanics(arg) == Len(arg) = 0

\* order.New(steps).
OrderNew ==
    /\ ctor.at = "pending"
    /\ IF NewPanics(ctor.arg)
       THEN /\ ctor' = [ctor EXCEPT !.at = "panicked"]
            /\ UNCHANGED steps
       ELSE /\ ctor' = [ctor EXCEPT !.at = "built"]
            /\ steps' = ctor.arg
    /\ UNCHANGED <<req, callerCtx, ctxErr, gErr, pc, idx, out, tpc, runErr, ret, firstFail,
                   poolCap, sem, sendq, running, cpc, cctx, wokenFrom, cparked, errMenu,
                   cerr, poolSize, invoked, ctxAtCall, trk, trNil, resp, writes, mu, results>>

InitNew ==
    /\ ctor \in NewArgs
    /\ trNil = FALSE
    /\ steps = <<>>
    /\ InitCalls({1}, Len(ctor.arg), {NoRequest})
    /\ InitNoPool
    /\ errMenu = {Nil, ErrBoom}

NextNew ==
    \/ OrderNew
    \/ \E c \in Calls :
        \/ ProcessStart(c)
        \/ Launch(c)
        \/ Wait(c)
        \/ CallerCancel(c)
        \/ CallerDeadline(c)
        \/ \E i \in StepIdx :
            \/ AnyReturn(c, i)
            \/ CtxErrReturn(c, i)
            \/ SleepEnter(c, i)
            \/ TimerFire(c, i)
            \/ GoReturn(c, i)

SpecNew == InitNew /\ [][NextNew]_vars

----
(* The end-to-end scenario: A returns after a short while without looking  *)
(* at its context, B returns at once, C sleeps on a far-off timer.  Every  *)
(* goroutine that can take a step eventually takes one; timers and the     *)
(* caller's context are the environment's and owe nothing.                 *)

ScenarioSteps ==
    Named(<<[kind |-> "any", d |-> "zero"], [kind |-> "any", d |-> "zero"],
            [kind |-> "sleep", d |-> "far"]>>)

InitScenario ==
    /\ steps = ScenarioSteps
    /\ InitCalls({1}, Len(ScenarioSteps), {NoRequest})
    /\ ctor = BuiltWith(steps)
    /\ trNil = FALSE
    /\ InitNoPool
    /\ errMenu = {Nil, ErrDeclined}

\* The steps of the goroutines of the call.
GoroutineStep ==
    \E c \in Calls :
        \/ ProcessStart(c)
        \/ Launch(c)
        \/ Wait(c)
        \/ \E i \in StepIdx :
            \/ AnyReturn(c, i)
            \/ SleepEnter(c, i)
            \/ GoReturn(c, i)

NextScenario ==
    \/ GoroutineStep
    \/ \E c \in Calls :
        \/ CallerCancel(c)
        \/ CallerDeadline(c)

SpecScenario == InitScenario /\ [][NextScenario]_vars /\ WF_vars(GoroutineStep)

----
(* Several Process calls on one Service wired with payment, vendor and     *)
(* courier, sharing the pool and the tracker.  The callers' contexts stay  *)
(* live: a scope is canceled only by a failure of one of its own steps.    *)

\* Process calls explored on the one Service.
MaxCalls == 2

SharedRequests ==
    {[failStep |-> f, amount |-> 1,
      delay |-> [payment |-> "short", vendor |-> "short", courier |-> "short"]] :
        f \in {"", "payment", "vendor", "courier"}}

InitShared ==
    /\ steps = BuiltinSteps
    /\ \E n \in 1..MaxCalls : InitCalls(1..n, Len(BuiltinSteps), SharedRequests)
    /\ ctor = BuiltWith(steps)
    /\ trNil = FALSE
    /\ poolSize = 1
    /\ poolCap = PoolNew(poolSize)
    /\ sem = 0
    /\ sendq = <<>>
    /\ running = 0
    /\ cpc = <<>>
    /\ cctx = <<>>
    /\ cparked = <<>>
    /\ cerr = <<>>
    /\ trk = <<>>
    /\ errMenu = {}

NextShared ==
    \E c \in Calls :
        \/ ProcessStart(c)
        \/ Launch(c)
        \/ Wait(c)
        \/ \E i \in StepIdx :
            \/ StepBegin(c, i)
            \/ AcquireEnter(c, i)
            \/ SleepEnter(c, i)
            \/ TimerFire(c, i)
            \/ Release(c, i)
            \/ Dec(c, i)
            \/ GoReturn(c, i)

SpecShared == InitShared /\ [][NextShared]_vars

\* Calls contending for the pool's single slot, none with a deadline: the
\* first succeeds, each other succeeds or fails at payment, which cancels
\* its courier wherever it is.
ContendRequests ==
    {[failStep |-> f, amount |-> 1,
      delay |-> [payment |-> "short", vendor |-> "short", courier |-> "short"]] :
        f \in {"", "payment"}}

InitContend ==
    /\ steps = BuiltinSteps
    /\ InitCalls(1..MaxCalls, Len(BuiltinSteps), ContendRequests)
    /\ req[1].failStep = ""
    /\ ctor = BuiltWith(steps)
    /\ trNil = FALSE
    /\ poolSize = 1
    /\ poolCap = PoolNew(poolSize)
    /\ sem = 0
    /\ sendq = <<>>
    /\ running = 0
    /\ cpc = <<>>
    /\ cctx = <<>>
    /\ cparked = <<>>
    /\ cerr = <<>>
    /\ trk = <<>>
    /\ errMenu = {}

\* Fair scheduling: every step of NextShared is a step of a runnable
\* goroutine or the firing of a running timer; the Go scheduler runs every
\* runnable goroutine and the runtime fires every timer, so the system does
\* not stop while such a step is possible.
SpecContendFair == InitContend /\ [][NextShared]_vars /\ WF_vars(NextShared)

----
(* The tracker alone, under direct users that each repeat Inc then Dec.    *)

\* Direct users of the tracker explored, and the Inc/Dec pairs each may do.
MaxTrackers == 3
MaxIters == 2

TrackerUsers == DOMAIN trk

\* tr.Inc() by user u.
TrackerInc(u) ==
    /\ trk[u].at = "idle"
    /\ trk[u].iters < MaxIters
    /\ running' = AfterInc(running)
    /\ trk' = [trk EXCEPT ![u].at = "inced"]
    /\ UNCHANGED <<steps, req, callerCtx, ctxErr, gErr, pc, idx, out, tpc, runErr, ret,
                   firstFail, poolCap, sem, sendq, cpc, cctx, wokenFrom, cparked, errMenu,
                   cerr, poolSize, invoked, ctxAtCall, ctor, trNil, resp, writes, mu, results>>

\* tr.Dec() by user u, after its Inc.
TrackerDec(u) ==
    /\ trk[u].at = "inced"
    /\ running' = AfterDec(running)
    /\ trk' = [trk EXCEPT ![u] = [at |-> "idle", iters |-> @.iters + 1]]
    /\ UNCHANGED <<steps, req, callerCtx, ctxErr, gErr, pc, idx, out, tpc, runErr, ret,
                   firstFail, poolCap, sem, sendq, cpc, cctx, wokenFrom, cparked, errMenu,
                   cerr, poolSize, invoked, ctxAtCall, ctor, trNil, resp, writes, mu, results>>

\* User u has done all its pairs and ends (wg.Done).
TrackerFinish(u) ==
    /\ trk[u].at = "idle"
    /\ trk' = [trk EXCEPT ![u].at = "finished"]
    /\ UNCHANGED <<steps, req, callerCtx, ctxErr, gErr, pc, idx, out, tpc, runErr, ret,
                   firstFail, poolCap, sem, sendq, running, cpc, cctx, wokenFrom, cparked,
                   errMenu, cerr, poolSize, invoked, ctxAtCall, ctor, trNil, resp, writes, mu, results>>

InitTracker ==
    /\ steps = <<>>
    /\ InitCalls({}, 0, {NoRequest})
    /\ ctor = NoService
    /\ trNil = FALSE
    /\ poolSize = 0
    /\ poolCap = PoolNew(poolSize)
    /\ sem = 0
    /\ sendq = <<>>
    /\ running = 0
    /\ cpc = <<>>
    /\ cctx = <<>>
    /\ cparked = <<>>
    /\ cerr = <<>>
    /\ errMenu = {}
    /\ \E n \in 1..MaxTrackers : trk = [u \in 1..n |-> [at |-> "idle", iters |-> 0]]

NextTracker ==
    \E u \in TrackerUsers :
        \/ TrackerInc(u)
        \/ TrackerDec(u)
        \/ TrackerFinish(u)

SpecTracker == InitTracker /\ [][NextTracker]_vars

----
(* Properties.                                                             *)

Returned(c) == pc[c] = "returned"

\* A chain that carries one of the two context sentinels.
CarriesCancellation(e) ==
    \E k \in DOMAIN e : e[k] = "Canceled" \/ e[k] = "DeadlineExceeded"

\* C1: for every registered list of uniquely named steps and every order in
\* which the tasks finish, Process returns exactly one result per step and
\* the i-th result carries the name of the i-th registered step.
C1_ResultsInRegistrationOrder ==
    \A c \in Calls : Returned(c) =>
        /\ Len(ret[c].results) = N
        /\ \A i \in StepIdx : ret[c].results[i].name = steps[i].name

\* The last registered step failed and was joined before the first one,
\* which failed too: completion order differs from registration order.
C1_Witness ==
    \E c \in Calls :
        /\ Returned(c)
        /\ N >= 2
        /\ \A i, j \in StepIdx : i # j => steps[i].name # steps[j].name
        /\ firstFail[c] = N
        /\ ret[c].results[1].status = "error"
        /\ ret[c].results[1].name = steps[1].name

\* C2: in the step in which a step's closure hands a non-nil error to the
\* group the scope is canceled, and a scope that is canceled keeps its error:
\* it goes from active to canceled at most once and is never active again.
C2_ScopeCanceledOnFailure ==
    /\ [][\A c \in Calls : \A i \in StepIdx :
            (tpc[c][i] = "ret" /\ tpc'[c][i] = "done" /\ runErr[c][i] # Nil)
                => ctxErr'[c] # Nil]_vars
    /\ [][\A c \in Calls : ctxErr[c] # Nil => ctxErr'[c] = ctxErr[c]]_vars

\* A step failed while Process is still joining, the caller's context is
\* live, and the failure woke a sibling parked on the scope.
C2_Witness ==
    \E c \in Calls : \E i, j \in StepIdx :
        /\ pc[c] \in {"loop", "wait"}
        /\ callerCtx[c] = Nil
        /\ tpc[c][i] = "done"
        /\ runErr[c][i] # Nil
        /\ ctxErr[c] = ErrCanceled
        /\ wokenFrom[c][j] = <<"delay", i>>

\* C3: when Process has returned, every step task it launched has ended,
\* whether the steps succeeded, failed or were canceled.
C3_ReturnsAfterJoin ==
    \A c \in Calls : Returned(c) => \A i \in StepIdx : tpc[c][i] = "done"

C3_Witness ==
    \E c \in Calls :
        /\ Returned(c)
        /\ \E i, j, k \in StepIdx :
            /\ ret[c].results[i].status = "ok"
            /\ ret[c].results[j].status = "error"
            /\ ret[c].results[k].status = "canceled"
            /\ wokenFrom[c][k][1] = "delay"

\* C4: Process returns nil exactly when every Run returned nil; otherwise it
\* returns, unchanged, the error of the step whose failure the join recorded
\* first.
C4_ReturnsFirstRecordedError ==
    \A c \in Calls : Returned(c) =>
        /\ (ret[c].err = Nil <=> \A i \in StepIdx : runErr[c][i] = Nil)
        /\ firstFail[c] # 0 => ret[c].err = runErr[c][firstFail[c]]

\* An untagged error was recorded first and is returned, although a sibling
\* failed with a different, tagged error.
C4_Witness ==
    \E c \in Calls :
        /\ Returned(c)
        /\ firstFail[c] # 0
        /\ ret[c].err = ErrBoom
        /\ \E j \in StepIdx : j # firstFail[c] /\ runErr[c][j] = ErrDeclined

\* C5: a step's result is a function of what its Run returned: nil gives ok;
\* an error carrying context.Canceled or context.DeadlineExceeded anywhere in
\* its chain gives canceled; any other error gives error, with detail the
\* Kind() of the first layer of the chain that has one, empty when none has.
C5_StatusFromRunError ==
    \A c \in Calls : \A i \in StepIdx : tpc[c][i] = "done" =>
        LET e == runErr[c][i]
            r == out[c][i]
            kinded == {k \in DOMAIN e : e[k] \in KindLayers}
        IN  /\ e = Nil => (r.status = "ok" /\ r.detail = "")
            /\ (e # Nil /\ CarriesCancellation(e)) => r.status = "canceled"
            /\ (e # Nil /\ ~CarriesCancellation(e)) =>
                /\ r.status = "error"
                /\ kinded = {} => r.detail = ""
                /\ kinded # {} =>
                    \E k \in kinded : (\A j \in kinded : k <= j) /\ r.detail = e[k]

\* A wrapped chain with two kinded layers: the outer one's kind is the detail.
C5_Witness ==
    \E c \in Calls : \E i \in StepIdx :
        /\ tpc[c][i] = "done"
        /\ runErr[c][i] = <<"wrap", "no_courier", "payment_declined">>
        /\ out[c][i].status = "error"
        /\ out[c][i].detail = "no_courier"

\* C6: if step A hands a tagged domain error to the group while sibling B is
\* parked on the scope's done signal, with no timer or a far-off one, then B
\* returns the cancellation error, Process returns A's error without B's
\* timer having fired, A's result is error with A's tag and B's is canceled.
C6_FailureCancelsBlockedSibling ==
    \A c \in Calls : Returned(c) =>
        \A a, b \in StepIdx :
            ( /\ wokenFrom[c][b] = <<"delay", a>>
              /\ ~HasTimer(c, b)
              /\ runErr[c][a] = ErrDeclined )
            => /\ runErr[c][b] = ErrCanceled
               /\ ret[c].results[b].status = "canceled"
               /\ ret[c].err = runErr[c][a]
               /\ ret[c].results[a].status = "error"
               /\ ret[c].results[a].detail = "payment_declined"

\* A failed with a tagged error and thereby woke B, which slept on a
\* far-off timer; Process has returned.
C6_Witness ==
    \E c \in Calls : \E a, b \in StepIdx :
        /\ Returned(c)
        /\ steps[a].kind = "any"
        /\ runErr[c][a] = ErrDeclined
        /\ steps[b].kind = "sleep"
        /\ steps[b].d = "far"
        /\ wokenFrom[c][b] = <<"delay", a>>
        /\ ret[c].results[b].status = "canceled"

\* C7: a built-in step that is parked in its delay or in the pool's Acquire
\* when the scope is canceled returns the scope's error from that wait and
\* does nothing step-specific afterwards: it only runs its deferred calls,
\* a step woken in Acquire holds no slot, and its result is canceled.
C7_BlockedStepReturnsCancellation ==
    \A c \in Calls : \A i \in StepIdx : wokenFrom[c][i][1] # "" =>
        /\ runErr[c][i] = ctxErr[c]
        /\ runErr[c][i] \in {ErrCanceled, ErrDeadlineExceeded}
        /\ tpc[c][i] \in {"release", "dec", "ret", "done"}
        /\ wokenFrom[c][i][1] = "acquire" => tpc[c][i] # "release"
        /\ tpc[c][i] = "done" => out[c][i].status = "canceled"

\* The courier was woken in Acquire and payment in its delay, and both
\* results are canceled.
C7_Witness ==
    \E c \in Calls :
        /\ Returned(c)
        /\ wokenFrom[c][3][1] = "acquire"
        /\ wokenFrom[c][1][1] = "delay"
        /\ ret[c].results[3].status = "canceled"
        /\ ret[c].results[1].status = "canceled"

\* C8 as stated: whenever some step's result has status error, the error
\* Process returns is not a cancellation error.
C8_Original ==
    \A c \in Calls : Returned(c) =>
        ((\E i \in StepIdx : ret[c].results[i].status = "error")
            => ~CarriesCancellation(ret[c].err))

\* C8 amended: if the caller's context is live until Process returns and no
\* step returns a cancellation error of its own making (only the scope's
\* ctx.Err()), then whenever some step's result has status error Process
\* returns a non-nil error that is not a cancellation error.
C8_CancellationNotFirst ==
    \A c \in Calls :
        ( /\ Returned(c)
          /\ callerCtx[c] = Nil
          /\ \A i \in StepIdx :
                steps[i].kind = "any" => ~CarriesCancellation(runErr[c][i])
          /\ \E i \in StepIdx : ret[c].results[i].status = "error" )
        => (ret[c].err # Nil /\ ~CarriesCancellation(ret[c].err))

\* One step failed with a domain error, a sibling returned the scope's
\* cancellation error, and the caller's context is still live.
C8_Witness ==
    \E c \in Calls : \E i, j \in StepIdx :
        /\ Returned(c)
        /\ callerCtx[c] = Nil
        /\ \A k \in StepIdx : steps[k].kind = "any" => ~CarriesCancellation(runErr[c][k])
        /\ ret[c].results[i].status = "error"
        /\ ret[c].results[j].status = "canceled"
        /\ runErr[c][j] = ErrCanceled

Holders == {p \in Callers : cpc[p] = "holding"}
Waiting == {p \in Callers : cpc[p] = "parked"}

\* C9: for a pool of capacity K the successful Acquire calls not yet matched
\* by a Release never number more than K.
C9_HoldersWithinCapacity ==
    /\ Cardinality(Holders) <= poolCap
    /\ Cardinality(Holders) = sem

\* The pool is saturated while a further caller waits.
C9_Witness ==
    /\ Cardinality(Holders) = poolCap
    /\ poolCap >= 2
    /\ Waiting # {}

\* C10: while all K slots are held no Acquire succeeds except in a step in
\* which a holder releases, and a Release lets exactly one parked Acquire
\* succeed (none when nobody waits).
C10_ReleaseAdmitsOne ==
    /\ [][\A p \in Callers :
            (sem = poolCap /\ cpc[p] # "holding" /\ cpc'[p] = "holding")
                => \E q \in Callers : q # p /\ cpc[q] = "holding" /\ cpc'[q] = "idle"]_vars
    /\ [][\A q \in Callers :
            (cpc[q] = "holding" /\ cpc'[q] = "idle")
                => Cardinality({p \in Callers : cpc[p] = "parked" /\ cpc'[p] = "holding"})
                       = (IF Waiting = {} THEN 0 ELSE 1)]_vars

\* A caller that had to park now holds a slot while another still waits.
C10_Witness ==
    \E p, q \in Callers :
        /\ cpc[p] = "holding"
        /\ cparked[p]
        /\ cpc[q] = "parked"
        /\ sem = poolCap

\* C11: an Acquire parked on a saturated pool does not stay parked once its
\* context is canceled or past its deadline: in that very step, with no
\* Release needed, it returns the context's error; and an Acquire that
\* returned an error took no slot (the slots taken stay those of the holders).
C11_BlockedAcquireReturnsCtxErr ==
    /\ [](\A p \in Callers : cctx[p] # Nil => cpc[p] # "parked")
    /\ [](\A p \in Callers : cpc[p] = "failed" =>
            cerr[p] = cctx[p] /\ cerr[p] \in {ErrCanceled, ErrDeadlineExceeded})
    /\ [][\A p \in Callers : (cpc[p] # "failed" /\ cpc'[p] = "failed") =>
            /\ sem' = sem
            /\ \A q \in Callers : cpc'[q] = "holding" <=> cpc[q] = "holding"]_vars
    /\ [](\A p \in Callers : cerr[p] # Nil => cpc[p] \notin {"holding", "parked"})

\* A caller that parked on a saturated pool has returned the deadline error
\* while the pool is still saturated by holders that never had to wait.
C11_Witness ==
    \E p \in Callers :
        /\ cpc[p] = "failed"
        /\ cparked[p]
        /\ cerr[p] = ErrDeadlineExceeded
        /\ sem = poolCap
        /\ poolCap >= 2
        /\ Cardinality(Holders) = poolCap

\* C12: the capacity of the pool pool.New(size) makes is 1 when size <= 0,
\* 128 when size > 128, and size otherwise.
C12_NewClampsCapacity ==
    /\ poolCap \in 1..128
    /\ poolSize <= 0 => poolCap = 1
    /\ poolSize > 128 => poolCap = 128
    /\ poolSize \in 1..128 => poolCap = poolSize

\* A pool asked for with 129 slots is in use with capacity 128, and one
\* asked for with a negative size has its single slot taken.
C12_Witness ==
    \/ /\ poolSize = 129
       /\ poolCap = 128
       /\ Holders = Callers
    \/ /\ poolSize = -129
       /\ poolCap = 1
       /\ Cardinality(Holders) = 1
       /\ Waiting # {}

\* C13: in one Process call each registered step's Run is invoked exactly
\* once: never more than once at any moment, once for every step launched,
\* and once for every step when Process has returned, also when the scope
\* was already canceled (by the caller or by an earlier step's failure) when
\* the step was launched.
C13_RunInvokedExactlyOnce ==
    \A c \in Calls : \A i \in StepIdx :
        /\ invoked[c][i] <= 1
        /\ i <= idx[c] => invoked[c][i] = 1
        /\ Returned(c) => invoked[c][i] = 1

\* The first step's failure canceled the scope before the last step looked
\* at it; the last step's Run was invoked all the same, once.
C13_Witness ==
    \E c \in Calls :
        /\ Returned(c)
        /\ N >= 2
        /\ \A i \in StepIdx : invoked[c][i] = 1
        /\ firstFail[c] = 1
        /\ runErr[c][1] = ErrBoom
        /\ steps[N].kind = "ctxerr"
        /\ runErr[c][N] = ErrCanceled
        /\ callerCtx[c] = Nil

\* C14: when the caller's deadline elapses while a step is parked on the
\* scope's done signal, and no step fails of its own, that step returns the
\* deadline error, its result is canceled, and Process returns an error that
\* matches context.DeadlineExceeded.
C14_DeadlineWhileWaiting ==
    \A c \in Calls : \A i \in StepIdx :
        ( /\ Returned(c)
          /\ callerCtx[c] = ErrDeadlineExceeded
          /\ wokenFrom[c][i] = <<"delay", 0>>
          /\ \A j \in StepIdx : steps[j].kind = "any" => runErr[c][j] = Nil )
        => /\ runErr[c][i] = ErrDeadlineExceeded
           /\ ret[c].results[i].status = "canceled"
           /\ ErrorsIs(ret[c].err, "DeadlineExceeded")

\* A step that only waits on Done was woken by the caller's deadline; a
\* sibling had succeeded.
C14_Witness ==
    \E c \in Calls : \E i, j \in StepIdx :
        /\ Returned(c)
        /\ callerCtx[c] = ErrDeadlineExceeded
        /\ steps[i].kind = "waitdone"
        /\ wokenFrom[c][i] = <<"delay", 0>>
        /\ ret[c].results[i].status = "canceled"
        /\ steps[j].kind = "any"
        /\ ret[c].results[j].status = "ok"
        /\ ret[c].err = ErrDeadlineExceeded

\* C15: when Process is entered with a context that is already canceled, the
\* scope is canceled from the start, so a step that returns ctx.Err() returns
\* context.Canceled; and when every step returns the scope's error, every
\* result is canceled and Process returns an error matching context.Canceled.
C15_AlreadyCanceledContext ==
    \A c \in Calls : (pc[c] # "idle" /\ ctxAtCall[c] = ErrCanceled) =>
        /\ ctxErr[c] = ErrCanceled
        /\ \A i \in StepIdx :
            (steps[i].kind = "ctxerr" /\ tpc[c][i] \in {"ret", "done"})
                => runErr[c][i] = ErrCanceled
        /\ (Returned(c) /\ \A i \in StepIdx : runErr[c][i] = ctxErr[c]) =>
            /\ \A i \in StepIdx : ret[c].results[i].status = "canceled"
            /\ ErrorsIs(ret[c].err, "Canceled")

\* Two steps that return ctx.Err() ran under a context canceled before the
\* call; both results are canceled and context.Canceled is returned.
C15_Witness ==
    \E c \in Calls :
        /\ Returned(c)
        /\ ctxAtCall[c] = ErrCanceled
        /\ N = 2
        /\ \A i \in StepIdx :
            /\ steps[i].kind = "ctxerr"
            /\ ret[c].results[i].status = "canceled"
            /\ ret[c].results[i].detail = ""
        /\ ret[c].err = ErrCanceled

\* C16: for any number of concurrent users each doing Inc then Dec any
\* number of times, in any interleaving, the counter equals the number of
\* users between their Inc and their Dec, and so reads 0 once all users have
\* finished.
C16_TrackerBalanced ==
    /\ running = Cardinality({u \in TrackerUsers : trk[u].at = "inced"})
    /\ (\A u \in TrackerUsers : trk[u].at = "finished") => running = 0

\* Three users have each finished two pairs and the counter reads 0.
C16_Witness ==
    /\ Cardinality(TrackerUsers) >= 3
    /\ \A u \in TrackerUsers : trk[u].at = "finished" /\ trk[u].iters = 2
    /\ running = 0

\* The built-in step invocations that are between their tr.Inc and tr.Dec.
InFlight ==
    {ci \in Calls \X StepIdx :
        tpc[ci[1]][ci[2]] \in {"acquire", "acqParked", "sleep", "sleepParked", "release", "dec"}}

\* C17: the shared counter always equals the number of built-in step
\* invocations in flight, on every exit path of every step, so once every
\* Process call sharing the tracker has returned Running() is 0.
C17_TrackerZeroAfterCalls ==
    /\ running = Cardinality(InFlight)
    /\ (\A c \in Calls : Returned(c)) => running = 0

\* Two calls have returned: in one the payment was declined, the vendor was
\* canceled in its delay and the courier in Acquire (the other call's courier
\* held the slot); the other call succeeded throughout.
C17_Witness ==
    /\ Cardinality(Calls) = 2
    /\ \A c \in Calls : Returned(c)
    /\ running = 0
    /\ \E c, d \in Calls :
        /\ ret[c].err = ErrDeclined
        /\ wokenFrom[c][2][1] = "delay"
        /\ wokenFrom[c][3][1] = "acquire"
        /\ ret[d].err = Nil
        /\ \A i \in StepIdx : ret[d].results[i].status = "ok"

\* C18: each Process call writes only its own result list: the list a call
\* returned holds, entry by entry, the outcome of that call's own invocation
\* of the step, and stays so whatever other calls on the same Service do
\* before, during or after it.
C18_ResultsPerCall ==
    \A c \in Calls : Returned(c) =>
        /\ out[c] = ret[c].results
        /\ \A i \in StepIdx :
            ret[c].results[i] = StepResult(steps[i].name, runErr[c][i])

\* One call has returned with a declined payment while another call on the
\* same Service, whose payment succeeded, is still being joined.
C18_Witness ==
    \E c, d \in Calls :
        /\ Returned(c)
        /\ ret[c].results[1].status = "error"
        /\ ret[c].results[2].status = "canceled"
        /\ pc[d] = "wait"
        /\ tpc[d][1] = "done"
        /\ out[d][1].status = "ok"
        /\ tpc[d][3] # "done"

\* C19: with A returning nil after a short while, B failing at once with a
\* tagged domain error and C sleeping on a far-off timer, once B has failed
\* Process returns although C's timer never fires, and when it has returned
\* (the caller's context being live) the results are A: ok, B: error with
\* B's tag, C: canceled, and the error returned is B's.
C19_EndToEndScenario ==
    /\ [](\A c \in Calls :
            ( /\ Returned(c)
              /\ callerCtx[c] = Nil
              /\ runErr[c][1] = Nil
              /\ runErr[c][2] = ErrDeclined )
            => /\ ret[c].results[1] = [name |-> "a", status |-> "ok", detail |-> ""]
               /\ ret[c].results[2] =
                    [name |-> "b", status |-> "error", detail |-> "payment_declined"]
               /\ ret[c].results[3] = [name |-> "c", status |-> "canceled", detail |-> ""]
               /\ ret[c].err = ErrDeclined
               /\ ~HasTimer(c, 3))
    /\ (tpc[1][2] = "ret" /\ runErr[1][2] = ErrDeclined) ~> Returned(1)

\* B's failure woke C from its sleep while A had not returned yet; A then
\* succeeded and Process returned.
C19_Witness ==
    \E c \in Calls :
        /\ Returned(c)
        /\ callerCtx[c] = Nil
        /\ wokenFrom[c][3] = <<"delay", 2>>
        /\ ret[c].results[1].status = "ok"
        /\ ret[c].results[2].detail = "payment_declined"
        /\ ret[c].results[3].status = "canceled"
        /\ ret[c].err = ErrDeclined

\* The steps of call c whose Run returned an error that is not a
\* cancellation error.
DomainFailures(c) ==
    {i \in StepIdx : runErr[c][i] # Nil /\ ~CarriesCancellation(runErr[c][i])}

C21_NewPanicsOnNoSteps ==
    /\ ctor.at = "panicked" => /\ Len(ctor.arg) = 0
                               /\ steps = <<>>
                               /\ \A c \in Calls : pc[c] = "idle"
    /\ ctor.at = "built" => /\ Len(ctor.arg) >= 1
                            /\ ~ctor.nilArg
                            /\ steps = ctor.arg
    /\ ctor.at = "pending" => \A c \in Calls : pc[c] = "idle"

\* New(nil) has panicked.
C21_Witness ==
    /\ ctor.at = "panicked"
    /\ ctor.nilArg
    /\ steps = <<>>

\* The delay of step i of call c returns in this step.
DelayReturns(c, i) ==
    /\ steps[i].kind = "sleep"
    /\ tpc[c][i] \in {"sleep", "sleepParked"}
    /\ tpc'[c][i] = "ret"

DomainErrorOf(f) ==
    IF f = "payment" THEN ErrDeclined
    ELSE IF f = "vendor" THEN ErrUnavailable
    ELSE ErrNoCourierAvailable

\* C23: with exactly one built-in step configured to fail and a caller
\* context that stays live, Process returns that step's domain error, never
\* a cancellation error and never nil, whatever the interleaving of the
\* three steps and of the calls sharing the pool.
C23_ConfiguredFailureReturned ==
    \A c \in Calls :
        (Returned(c) /\ req[c].failStep \in BuiltinKinds) =>
            /\ ret[c].err = DomainErrorOf(req[c].failStep)
            /\ ~CarriesCancellation(ret[c].err)
            /\ ret[c].err # Nil

\* Two calls share the pool; one, told to fail at vendor, returned the vendor
\* error although its courier step came back with a cancellation.
C23_Witness ==
    /\ Cardinality(Calls) = 2
    /\ \E c \in Calls :
        /\ Returned(c)
        /\ req[c].failStep = "vendor"
        /\ ret[c].err = ErrUnavailable
        /\ \E i \in StepIdx : steps[i].kind = "courier" /\ runErr[c][i] = ErrCanceled

\* The courier steps that hold a pool slot: Acquire returned nil and the
\* deferred Release has not run.
CourierHolders ==
    {w \in Calls \X StepIdx :
        /\ steps[w[2]].kind = "courier"
        /\ tpc[w[1]][w[2]] \in {"sleep", "sleepParked", "release"}}

\* C24: courier.Assign called with an already-canceled context returns an
\* error matching context.Canceled whether or not the pool has a free slot,
\* and holds no pool slot when it returns.
C24_AssignUnderCanceledContext ==
    /\ sem = Cardinality(Holders) + Cardinality(CourierHolders)
    /\ \A c \in Calls : \A i \in StepIdx :
        (steps[i].kind = "courier" /\ ctxAtCall[c] = ErrCanceled
            /\ tpc[c][i] \in {"release", "dec", "ret"}) =>
                ErrorsIs(runErr[c][i], "Canceled")

\* C25: while the caller's context is live and no step has returned an
\* error, the scope is not canceled as long as a step is still running; when
\* Process returns in that case every result is ok and the error is nil.
C25_NoSpontaneousCancellation ==
    \A c \in Calls :
        (callerCtx[c] = Nil /\ \A i \in StepIdx : runErr[c][i] = Nil) =>
            /\ (\E i \in StepIdx : tpc[c][i] # "done") => ctxErr[c] = Nil
            /\ Returned(c) =>
                /\ ret[c].err = Nil
                /\ Len(ret[c].results) = N
                /\ \A i \in StepIdx : ret[c].results[i] = [name |-> steps[i].name,
                                                          status |-> "ok", detail |-> ""]

\* Three steps, one of them sleeping, all returned nil under a live context.
C25_Witness ==
    \E c \in Calls :
        /\ Returned(c)
        /\ callerCtx[c] = Nil
        /\ N = 3
        /\ \A i \in StepIdx : runErr[c][i] = Nil
        /\ \E i \in StepIdx : steps[i].kind = "sleep"
        /\ ret[c].err = Nil

\* C26: payment.Process, vendor.Notify and courier.Assign accept a nil
\* tracker: none of them panics, nothing is counted, and each reaches the
\* outcome it reaches with a tracker (nil, its domain error or the context's
\* error).
C26_NilTrackerAccepted ==
    trNil =>
        /\ running = 0
        /\ \A c \in Calls : \A i \in StepIdx :
            /\ tpc[c][i] # "panicked"
            /\ tpc[c][i] = "done" =>
                runErr[c][i] \in {Nil, DomainErrorOf(steps[i].kind), ctxErr[c]}

\* The status the error mapping table gives a kind.
StatusOfKind(k) ==
    IF k = "payment_declined" THEN 400 ELSE 503

\* C27: the status written is 200 exactly when the error is nil; for an
\* error whose chain has a layer with Kind() it is the status of the first
\* such layer's kind (payment_declined 400, vendor_unavailable 503,
\* no_courier 503); otherwise 504 when the chain matches DeadlineExceeded,
\* else 408 when it matches Canceled, else 500.
C27_HttpStatusMapping ==
    \A c \in Calls :
        resp[c] # 0 =>
            LET e == ret[c].err
                kinded == {k \in 1..Len(e) : e[k] \in KindLayers}
                layers == {e[k] : k \in 1..Len(e)}
            IN  /\ resp[c] = 200 <=> e = Nil
                /\ \A k \in kinded :
                       (\A j \in kinded : k <= j) => resp[c] = StatusOfKind(e[k])
                /\ (e # Nil /\ kinded = {}) =>
                       resp[c] = IF "DeadlineExceeded" \in layers THEN 504
                                 ELSE IF "Canceled" \in layers THEN 408
                                 ELSE 500

\* A vendor error wrapping a cancellation was answered 503.
C27_Witness ==
    \E c \in Calls :
        /\ resp[c] = 503
        /\ ret[c].err = <<"wrap", "vendor_unavailable", "Canceled">>

\* Run of step i of call c has returned nil.
RanOk(c, i) == tpc[c][i] \in {"ret", "done"} /\ runErr[c][i] = Nil

\* C28: cancellation is not retroactive.  Once Run of a step has returned
\* nil, nothing that happens later (a sibling's failure, the cancellation of
\* the scope, the caller's context ending) changes that: its slot, once
\* written, is ok and stays ok, and it is ok in the list Process returns, so
\* a list may hold ok, error and canceled entries together.
C28_CancellationNotRetroactive ==
    /\ [][\A c \in Calls : \A i \in StepIdx :
            RanOk(c, i) =>
                /\ RanOk(c, i)'
                /\ tpc[c][i] = "done" => out'[c][i] = out[c][i]]_vars
    /\ [](\A c \in Calls : \A i \in StepIdx :
            /\ (RanOk(c, i) /\ tpc[c][i] = "done") => out[c][i].status = "ok"
            /\ (RanOk(c, i) /\ Returned(c)) => ret[c].results[i].status = "ok")

\* A returned list with an ok, an error and a canceled entry, the failure
\* having been recorded by the group.
C28_Witness ==
    \E c \in Calls :
        /\ Returned(c)
        /\ N = 3
        /\ ret[c].results[1].status = "ok"
        /\ ret[c].results[2].status = "error"
        /\ ret[c].results[3].status = "canceled"
        /\ firstFail[c] = 2
        /\ callerCtx[c] = Nil

\* A step that never looks at its context.
ChecksNothing(i) == steps[i].kind = "any"

\* C29: a step that never checks the scope is not cut short by a sibling's
\* failure: while it runs under a canceled scope Process has not returned,
\* canceling the scope leaves it where it is, and the result Process returns
\* for it is the classification of what it returned itself: ok or error
\* whenever that was not a cancellation error, never the placeholder.
C29_UncheckedStepCompletes ==
    /\ [](\A c \in Calls : \A i \in StepIdx : ChecksNothing(i) =>
            /\ (tpc[c][i] \in {"start", "ret"}) => ~Returned(c)
            /\ Returned(c) =>
                /\ tpc[c][i] = "done"
                /\ ret[c].results[i] = StepResult(steps[i].name, runErr[c][i])
                /\ ~CarriesCancellation(runErr[c][i]) =>
                       ret[c].results[i].status =
                           IF runErr[c][i] = Nil THEN "ok" ELSE "error")
    /\ [][\A c \in Calls : \A i \in StepIdx :
            (ChecksNothing(i) /\ ctxErr[c] = Nil /\ ctxErr'[c] # Nil) =>
                /\ tpc[c][i] = "start" => tpc'[c][i] = "start"
                /\ tpc[c][i] = "ret" => (tpc'[c][i] \in {"ret", "done"}
                                         /\ runErr'[c][i] = runErr[c][i])]_vars

\* Step 1 failed first; step 2, which checks nothing, handed its own error
\* to the group afterwards and has it recorded as an error.
C29_Witness ==
    \E c \in Calls :
        /\ Returned(c)
        /\ N >= 2
        /\ ChecksNothing(2)
        /\ firstFail[c] = 1
        /\ callerCtx[c] = Nil
        /\ runErr[c][2] = ErrUnavailable
        /\ ret[c].results[2].status = "error"
        /\ ret[c].results[2].detail = "vendor_unavailable"
        /\ ret[c].err = runErr[c][1]

\* C30: in a list Process has returned, an entry with a non-empty detail has
\* status error, and no entry is the placeholder written before the step
\* was launched (status canceled, detail "operation not completed").
C30_DetailOnlyOnError ==
    \A c \in Calls : Returned(c) =>
        \A i \in 1..Len(ret[c].results) :
            /\ ret[c].results[i].detail # "" => ret[c].results[i].status = "error"
            /\ ret[c].results[i] # Prefill(steps[i].name)
            /\ ret[c].results[i].detail # "operation not completed"

\* A kinded error wrapping a cancellation was returned as canceled, without
\* detail.
C30_Witness ==
    \E c \in Calls :
        /\ Returned(c)
        /\ runErr[c][1] = <<"payment_declined", "Canceled">>
        /\ ret[c].results[1].status = "canceled"
        /\ ret[c].results[1].detail = ""

\* C31: after its pre-fill, slot i of a call's list is written exactly once,
\* by the closure of step i as it ends, before Process returns; no slot is
\* written once Process has returned.
C31_SlotWrittenOnceByOwner ==
    /\ [](\A c \in Calls : \A i \in StepIdx :
            /\ writes[c][i] <= 1
            /\ writes[c][i] = 1 <=> tpc[c][i] = "done"
            /\ Returned(c) => writes[c][i] = 1)
    /\ [][\A c \in Calls : \A i \in StepIdx :
            /\ writes'[c][i] # writes[c][i] =>
                /\ tpc[c][i] = "ret"
                /\ tpc'[c][i] = "done"
                /\ ~Returned(c)
            /\ (tpc[c][i] # "idle" /\ out'[c][i] # out[c][i]) =>
                writes'[c][i] = writes[c][i] + 1
            /\ Returned(c) => out'[c] = out[c]]_vars

\* Three slots, each written once, in an order other than registration order.
C31_Witness ==
    \E c \in Calls :
        /\ N = 3
        /\ tpc[c][3] = "done"
        /\ writes[c] = <<0, 0, 1>>
        /\ tpc[c][1] = "ret"
        /\ out[c][1] = Prefill(steps[1].name)

\* The closures of call c between mu.Lock and mu.Unlock.
InSection(c) == {i \in StepIdx : tpc[c][i] \in {"locked", "written"}}

\* C32: in the map variant at most one closure at a time is between mu.Lock
\* and mu.Unlock, the map changes only in a step taken by the closure that
\* holds mu, and Process builds its list from the map only after every
\* closure has returned.
C32_MapWritesSerialized ==
    /\ [](\A c \in Calls :
            /\ Cardinality(InSection(c)) <= 1
            /\ InSection(c) = IF mu[c] = 0 THEN {} ELSE {mu[c]}
            /\ Returned(c) => \A i \in StepIdx : tpc[c][i] = "done")
    /\ [][\A c \in Calls :
            /\ (pc[c] # "idle" /\ results'[c] # results[c]) =>
                \E i \in StepIdx : /\ mu[c] = i
                                   /\ tpc[c][i] = "locked"
                                   /\ tpc'[c][i] = "written"
            /\ (~Returned(c) /\ Returned(c)') => \A i \in StepIdx : tpc[c][i] = "done"]_vars

\* One closure holds mu and has written while the other waits to lock.
C32_Witness ==
    \E c \in Calls :
        /\ N = 2
        /\ tpc[c][1] = "ret"
        /\ tpc[c][2] = "written"
        /\ mu[c] = 2
        /\ results[c][steps[2].name] # Absent

\* C33: over steps with unique names, when both variants have returned from
\* runs in which every step returned the same error and the same step was
\* the first to hand an error to the group, the two result lists are equal
\* entry by entry, in registration order, and so are the two errors.
C33_VariantsAgree ==
    ( /\ UniqueNames
      /\ Returned(ArrayCall)
      /\ Returned(MapCall)
      /\ runErr[ArrayCall] = runErr[MapCall]
      /\ firstFail[ArrayCall] = firstFail[MapCall] )
    => /\ ret[ArrayCall].results = ret[MapCall].results
       /\ ret[ArrayCall].err = ret[MapCall].err
       /\ Len(ret[MapCall].results) = N

\* Both returned the list error, canceled with the first step's error, the
\* second step having been canceled while it waited.
C33_Witness ==
    /\ UniqueNames
    /\ N = 2
    /\ Returned(ArrayCall)
    /\ Returned(MapCall)
    /\ runErr[ArrayCall] = <<ErrDeclined, ErrCanceled>>
    /\ runErr[MapCall] = <<ErrDeclined, ErrCanceled>>
    /\ ret[MapCall].results[1].detail = "payment_declined"
    /\ ret[MapCall].results[2].status = "canceled"
    /\ ret[MapCall].err = ErrDeclined

\* Step i of call c is a courier step.
IsCourier(i) == steps[i].kind = "courier"

\* C34: a courier step releases its slot exactly once on every path out of
\* Assign after a successful Acquire and never when Acquire failed: the
\* slots held always number the courier steps between a successful Acquire
\* and their Release, at most the pool's capacity across all calls; a step
\* that left Acquire without a slot goes nowhere near Release, a step
\* holding one leaves only through Release, and after Release it never
\* releases again.
C34_ReleasePairedWithAcquire ==
    /\ [](/\ sem = Cardinality(CourierHolders)
          /\ Cardinality(CourierHolders) <= poolCap)
    /\ [][\A c \in Calls : \A i \in StepIdx : IsCourier(i) =>
            /\ (tpc[c][i] \in {"acquire", "acqParked"} /\ runErr'[c][i] # Nil) =>
                   tpc'[c][i] = "dec"
            /\ tpc[c][i] \in {"sleep", "sleepParked"} =>
                   tpc'[c][i] \in {"sleep", "sleepParked", "release"}
            /\ tpc[c][i] = "release" => tpc'[c][i] \in {"release", "dec"}
            /\ tpc[c][i] \in {"dec", "ret", "done"} => tpc'[c][i] \in {"dec", "ret", "done"}
            /\ (tpc[c][i] = "release" /\ tpc'[c][i] = "dec") =>
                   sem' = sem - 1 + Cardinality(CourierHolders' \ CourierHolders)]_vars

\* One call's courier was canceled while waiting for the slot and is on its
\* way out without one, while the other call's courier holds the only slot.
C34_Witness ==
    \E c, c2 \in Calls : \E i \in StepIdx :
        /\ c # c2
        /\ IsCourier(i)
        /\ wokenFrom[c][i][1] = "acquire"
        /\ tpc[c][i] = "dec"
        /\ runErr[c][i] = ErrCanceled
        /\ tpc[c2][i] = "sleepParked"
        /\ sem = 1

\* C35: under fair scheduling every one of the concurrent Process calls over
\* the built-in steps sharing the pool eventually returns, with no deadline
\* on any of them: the calls do not deadlock on the pool.
C35_EveryCallReturns ==
    <>(\A c \in Calls : Returned(c))

\* Two calls over a pool of one slot have both returned, one with nil and
\* one with the payment's error, and the pool is empty again.
C35_Witness ==
    /\ Cardinality(Calls) = 2
    /\ poolCap = 1
    /\ \A c \in Calls : Returned(c)
    /\ \E c \in Calls : ret[c].err = Nil
    /\ \E c \in Calls : ret[c].err = ErrDeclined
    /\ sem = 0
    /\ sendq = <<>>

\* C36: an error whose chain both matches context.Canceled or
\* context.DeadlineExceeded and has a layer with Kind() is classified
\* canceled with an empty detail: the cancellation test comes before the
\* tag lookup.
C36_CancellationBeforeKind ==
    \A c \in Calls : \A i \in StepIdx :
        LET e == runErr[c][i]
            layers == {e[k] : k \in 1..Len(e)}
        IN  ( /\ tpc[c][i] = "done"
              /\ layers \cap {"Canceled", "DeadlineExceeded"} # {}
              /\ layers \cap KindLayers # {} )
            => /\ out[c][i].status = "canceled"
               /\ out[c][i].detail = ""
               /\ Returned(c) => ret[c].results[i] =
                     [name |-> steps[i].name, status |-> "canceled", detail |-> ""]

\* A wrapped deadline error carrying the courier's tag came back canceled.
C36_Witness ==
    \E c \in Calls :
        /\ Returned(c)
        /\ runErr[c][1] = <<"wrap", "DeadlineExceeded", "no_courier">>
        /\ ret[c].results[1].status = "canceled"
        /\ ret[c].results[1].detail = ""
        /\ ret[c].err = runErr[c][1]

\* C37: whenever Process has returned, its error is nil if and only if every
\* entry of the list it returned has status ok.
C37_NilErrorIffAllOk ==
    \A c \in Calls : Returned(c) =>
        (ret[c].err = Nil <=>
            \A i \in 1..Len(ret[c].results) : ret[c].results[i].status = "ok")

\* A call returned the deadline error with one entry ok and one canceled,
\* and no entry with status error.
C37_Witness ==
    \E c \in Calls :
        /\ Returned(c)
        /\ ret[c].err = ErrDeadlineExceeded
        /\ \E i \in StepIdx : ret[c].results[i].status = "ok"
        /\ \E i \in StepIdx : ret[c].results[i].status = "canceled"
        /\ \A i \in StepIdx : ret[c].results[i].status # "error"

\* C38: concurrent calls on one Service have scopes of their own.  With live
\* caller contexts, the scope of a call that has not returned is canceled
\* only if one of that call's own steps handed the group an error; a call
\* none of whose steps fails is never canceled before it returns, whatever
\* happens in the other calls, and each of its steps returns nil.
C38_ScopesAreSeparate ==
    \A c \in Calls :
        /\ (ctxErr[c] # Nil /\ ~Returned(c)) =>
            /\ firstFail[c] # 0
            /\ req[c].failStep # ""
            /\ gErr[c] = DomainErrorOf(req[c].failStep)
        /\ req[c].failStep = "" =>
            /\ ~Returned(c) => ctxErr[c] = Nil
            /\ \A i \in StepIdx : runErr[c][i] = Nil

\* One call's scope is canceled by its payment failure while the other
\* call's steps are still waiting under a live scope.
C38_Witness ==
    \E c, c2 \in Calls :
        /\ c # c2
        /\ req[c].failStep = "payment"
        /\ ctxErr[c] = ErrCanceled
        /\ ~Returned(c)
        /\ req[c2].failStep = ""
        /\ ctxErr[c2] = Nil
        /\ \E i \in StepIdx : tpc[c2][i] = "sleepParked"
        /\ \E i \in StepIdx : tpc[c2][i] = "acqParked"

\* C39: at every moment Running() is the number of built-in step bodies that
\* have started and not yet returned, a courier blocked in Acquire included
\* although it holds no slot; it is never negative and never more than the
\* steps launched.
C39_RunningCountsStartedBodies ==
    /\ running = Cardinality(InFlight)
    /\ running >= 0
    /\ running <= Cardinality({ci \in Calls \X StepIdx : invoked[ci[1]][ci[2]] > 0})
    /\ \A c \in Calls : \A i \in StepIdx :
        (IsCourier(i) /\ tpc[c][i] = "acqParked") =>
            /\ <<c, i>> \in InFlight
            /\ <<c, i>> \notin CourierHolders
            /\ running >= 1

\* All three bodies are counted while the courier is blocked in Acquire
\* behind another user of the pool and the other two wait in their delays.
C39_Witness ==
    \E c \in Calls :
        /\ running = 3
        /\ tpc[c][1] = "sleepParked"
        /\ tpc[c][2] = "sleepParked"
        /\ tpc[c][3] = "acqParked"
        /\ IsCourier(3)
        /\ sem = poolCap

\* C40: a built-in step's result is canceled only if the scope was canceled
\* before the step returned: a step whose return value is a cancellation
\* error has it from a scope that is already done, a slot written canceled
\* holds the scope's own error, and the scope was ended by the caller's
\* context (cancel or deadline) or by the failure of another step.
C40_CanceledOnlyUnderCanceledScope ==
    \A c \in Calls : \A i \in StepIdx :
        /\ (tpc[c][i] \in {"release", "dec", "ret", "done"} /\ CarriesCancellation(runErr[c][i])) =>
            ctxErr[c] # Nil
        /\ (tpc[c][i] = "done" /\ out[c][i].status = "canceled") =>
            /\ ctxErr[c] # Nil
            /\ runErr[c][i] = ctxErr[c]
            /\ \/ callerCtx[c] # Nil
               \/ /\ firstFail[c] \notin {0, i}
                  /\ ~CarriesCancellation(runErr[c][firstFail[c]])

\* The vendor was recorded canceled after the payment's failure canceled the
\* scope, the caller's context being live.
C40_Witness ==
    \E c \in Calls :
        /\ callerCtx[c] = Nil
        /\ firstFail[c] = 1
        /\ tpc[c][2] = "done"
        /\ out[c][2].status = "canceled"
        /\ ~Returned(c)

====
